---- MODULE Spec2Model ----
(***************************************************************************)
(* State-machine model of fullrmc's PairDistributionConstraint             *)
(* (src/Constraints/PairDistributionConstraints.py): the histogram delta   *)
(* algebra, the transform to the total G(r), the standard error and the    *)
(* before/after/accept/reject and amputation lifecycle.  The structure     *)
(* factor constraint (src/Constraints/StructureFactorConstraints.py) runs  *)
(* the same lifecycle line for line around a different transform.          *)
(*                                                                         *)
(* Numbers.  numpy float32 values are modelled as fixed-point numbers with *)
(* Scale units per 1.0 and floor rounding; a non-finite value (nan, inf)   *)
(* is the single value NonFinite.  Histogram counts are integers.          *)
(* Geometry.  The box is a periodic ring of BoxCells cells, an atom sits   *)
(* in a cell, and lengths are counted in half cells so that bin edges are  *)
(* integers.                                                               *)
(***************************************************************************)
EXTENDS Integers, Sequences, FiniteSets, TLC

(***************************************************************************)
(* Bounds of the exploration.                                              *)
(***************************************************************************)
MaxCalls == 5
MaxSteps == 1
Scale == 1000

(***************************************************************************)
(* Optional values: None is the empty tuple, a present value x is <<x>>.   *)
(***************************************************************************)
None == << >>
Some(x) == << x >>
Get(o) == o[1]

(***************************************************************************)
(* FLOAT_TYPE arithmetic.                                                  *)
(***************************************************************************)
F(n) == [nan |-> FALSE, v |-> n]
NonFinite == [nan |-> TRUE, v |-> 0]
Float == [nan : BOOLEAN, v : Int]
FromInt(i) == F(i * Scale)
Ratio(n, d) == IF d = 0 THEN NonFinite ELSE F((n * Scale) \div d)
FAdd(a, b) == IF a.nan \/ b.nan THEN NonFinite ELSE F(a.v + b.v)
FSub(a, b) == IF a.nan \/ b.nan THEN NonFinite ELSE F(a.v - b.v)
FMul(a, b) == IF a.nan \/ b.nan THEN NonFinite ELSE F((a.v * b.v) \div Scale)
FDiv(a, b) == IF a.nan \/ b.nan \/ b.v = 0 THEN NonFinite ELSE F((a.v * Scale) \div b.v)
FLess(a, b) == ~a.nan /\ ~b.nan /\ a.v < b.v
FOne == FromInt(1)
FZero == FromInt(0)
PI == Ratio(355, 113)

RECURSIVE FSum(_)
FSum(s) == IF s = << >> THEN FZero ELSE FAdd(FSum(SubSeq(s, 1, Len(s) - 1)), s[Len(s)])

(***************************************************************************)
(* The engine's configuration: atoms, their element and molecule, the box. *)
(***************************************************************************)
VARIABLES elementsIndex, moleculesIndex, basisVectors
systemVars == << elementsIndex, moleculesIndex, basisVectors >>
\* the box is a ring of basisVectors.cells cells, each basisVectors.length long
InitialSystem ==
  [elementsIndex |-> << 0, 1, 0, 1 >>, moleculesIndex |-> << 0, 0, 1, 2 >>,
   basisVectors |-> [cells |-> 4, length |-> FOne]]
BoxCells == basisVectors.cells
CoordNaN == -1
isPBC == TRUE

Atoms == DOMAIN elementsIndex
numberOfAtoms == Len(elementsIndex)
Elements == { elementsIndex[a] : a \in Atoms }
Cells == 0 .. (BoxCells - 1)
volume == FMul(FromInt(BoxCells), basisVectors.length)
InitialPopulation == [e \in Elements |-> Cardinality({a \in Atoms : elementsIndex[a] = e})]

(***************************************************************************)
(* The constraint's configuration: experimental data (distance in half     *)
(* cells, G(r)), limits, and what set_limits derives from them.            *)
(***************************************************************************)
VARIABLES experimentalData, limits
configVars == << experimentalData, limits >>
\* the weights of the experimental points and those of the points in use, the
\* window function, and the shape function: its parameters, its update
\* frequency, the array in use and the accepted count at its last update
VARIABLES dataWeights, usedDataWeights, windowFunction,
          shapeFuncParams, shapeUpdateFreq, shapeArray, lastShapeUpdate
correctionVars == << dataWeights, usedDataWeights, windowFunction,
                     shapeFuncParams, shapeUpdateFreq, shapeArray, lastShapeUpdate >>
InitialExperimentalData == << [r |-> 2, y |-> FromInt(-10)], [r |-> 4, y |-> FromInt(-22)] >>
InitialLimits == << None, None >>
elementsWeight == [e \in Elements |-> FromInt(e + 1)]

Abs(x) == IF x < 0 THEN -x ELSE x
Min(x, y) == IF x < y THEN x ELSE y
bin == experimentalData[2].r - experimentalData[1].r
\* (np.abs(self.experimentalData[:,0] - limit)).argmin(): the first closest point
ArgMin(limit) ==
  CHOOSE i \in DOMAIN experimentalData :
    \A j \in DOMAIN experimentalData :
       \/ Abs(experimentalData[i].r - limit) < Abs(experimentalData[j].r - limit)
       \/ Abs(experimentalData[i].r - limit) = Abs(experimentalData[j].r - limit) /\ i <= j
minDistIdx == IF limits[1] = None THEN 1 ELSE ArgMin(Get(limits[1]))
maxDistIdx == IF limits[2] = None THEN Len(experimentalData) ELSE ArgMin(Get(limits[2]))
minimumDistance == experimentalData[minDistIdx].r - (bin \div 2)
maximumDistance == experimentalData[maxDistIdx].r + (bin \div 2)
edges == [k \in 0 .. (maxDistIdx - minDistIdx + 1) |-> minimumDistance + k * bin]
histogramSize == Cardinality(DOMAIN edges) - 1
Bins == 0 .. (histogramSize - 1)
\* lengths are counted in half cells; the transform works with their lengths
Length(len) == FMul(Ratio(len, 2), basisVectors.length)
shellCenters == [k \in Bins |-> Length(experimentalData[minDistIdx + k].r)]
Cube(x) == FMul(FMul(x, x), x)
shellVolumes ==
  [k \in Bins |-> FMul(FMul(Ratio(4, 3), PI),
                       FSub(Cube(Length(edges[k + 1])), Cube(Length(edges[k]))))]
experimentalPDF == [k \in Bins |-> experimentalData[minDistIdx + k].y]

(***************************************************************************)
(* Histograms: counts per (ordered element pair, bin), intra and inter.    *)
(***************************************************************************)
HistIndex == Elements \X Elements \X Bins
HZero == [t \in HistIndex |-> 0]
HAdd(g, h) == [t \in HistIndex |-> g[t] + h[t]]
HSub(g, h) == [t \in HistIndex |-> g[t] - h[t]]
DataSub(d, e) == [intra |-> HSub(d.intra, e.intra), inter |-> HSub(d.inter, e.inter)]
DataAdd(d, e) == [intra |-> HAdd(d.intra, e.intra), inter |-> HAdd(d.inter, e.inter)]

\* the count of an unordered pair of elements: both orders summed, a pair of one
\* element once (nij as __get_total_Gr reads the histograms)
PhysicalHistogram(h) ==
  [t \in HistIndex |-> IF t[1] = t[2] THEN h[t] ELSE h[t] + h[<< t[2], t[1], t[3] >>]]
PhysicalCounts(d) ==
  [intra |-> PhysicalHistogram(d.intra), inter |-> PhysicalHistogram(d.inter)]

(***************************************************************************)
(* The pair histogram kernel (fullrmc.Core.pairs_histograms).              *)
(***************************************************************************)
\* separation of two cells in half cells, minimum image under periodicity
Distance(coords, a, b) ==
  LET dc == Abs(coords[a] - coords[b])
  IN  2 * (IF isPBC THEN Min(dc, BoxCells - dc) ELSE dc)
InRange(d) == d >= minimumDistance /\ d < maximumDistance
BinIndex_RoundedUp(d) == (d - minimumDistance + bin - 1) \div bin
BinIndex(d) == (d - minimumDistance) \div bin
\* the kernel rejects a coordinate that is not a number
KernelRejects(coords, rows) == \E a \in rows : coords[a] = CoordNaN
Tally(coords, pairs, intra) ==
  [t \in HistIndex |->
     Cardinality({p \in pairs :
        /\ elementsIndex[p[1]] = t[1]
        /\ elementsIndex[p[2]] = t[2]
        /\ (moleculesIndex[p[1]] = moleculesIndex[p[2]]) = intra
        /\ InRange(Distance(coords, p[1], p[2]))
        /\ BinIndex(Distance(coords, p[1], p[2])) = t[3]})]
\* every pair among the given rows once, filed under (element of the first,
\* element of the second) in row order
full_pairs_histograms_coords(coords, rows) ==
  LET pairs == {p \in rows \X rows : p[1] < p[2]}
  IN  [intra |-> Tally(coords, pairs, TRUE), inter |-> Tally(coords, pairs, FALSE)]
\* allAtoms = True: every indexed atom against every other atom of the system,
\* filed under (element of the indexed atom, element of the other)
multiple_pairs_histograms_coords(coords, indexes) ==
  LET pairs == {p \in indexes \X Atoms : p[1] # p[2]}
  IN  [intra |-> Tally(coords, pairs, TRUE), inter |-> Tally(coords, pairs, FALSE)]

(***************************************************************************)
(* The kernel on ncores workers.  The pairs of a call are shared out among *)
(* the workers; a worker tallies its share and adds the tally to the       *)
(* output accumulators, the workers in any order.                          *)
(***************************************************************************)
VARIABLES kernel
kernelVars == << kernel >>
MaxWorkers == 3
KernelIdle ==
  [pc |-> "idle", mode |-> "none", rows |-> {}, ncores |-> 0, share |-> << >>,
   pending |-> {}, first |-> 0, intra |-> << >>, inter |-> << >>]
\* the pairs of a full call over rows and of a call of rows against all atoms
KernelPairs(mode, rows) ==
  IF mode = "full" THEN {p \in rows \X rows : p[1] < p[2]}
  ELSE {p \in rows \X Atoms : p[1] # p[2]}
\* the pairs worker w has been given
ShareOf(w) == {p \in DOMAIN kernel.share : kernel.share[p] = w}
\* accumulator += partial
Accumulate_Overwriting(accumulator, partial) == partial
Accumulate(accumulator, partial) == HAdd(accumulator, partial)

(***************************************************************************)
(* The weighting scheme (pdbParser get_normalized_weighting).              *)
(***************************************************************************)
elementsPairs == {p \in Elements \X Elements : p[1] <= p[2]}
RECURSIVE SumOver(_, _)
SumOver(f, S) ==
  IF S = {} THEN FZero
  ELSE LET x == CHOOSE y \in S : TRUE IN FAdd(f[x], SumOver(f, S \ {x}))
IntSum(f) ==
  LET RECURSIVE go(_)
      go(S) == IF S = {} THEN 0 ELSE LET x == CHOOSE y \in S : TRUE IN f[x] + go(S \ {x})
  IN  go(DOMAIN f)
get_normalized_weighting_Unnormalized(numbers, weights) ==
  LET nAtoms == IntSum(numbers)
      molarFraction == [e \in Elements |-> Ratio(numbers[e], nAtoms)]
  IN  [p \in elementsPairs |->
         LET w == FMul(FMul(molarFraction[p[1]], molarFraction[p[2]]),
                       FMul(weights[p[1]], weights[p[2]]))
         IN  IF p[1] = p[2] THEN w ELSE FMul(FromInt(2), w)]
get_normalized_weighting(numbers, weights) ==
  LET nAtoms == IntSum(numbers)
      molarFraction == [e \in Elements |-> Ratio(numbers[e], nAtoms)]
      raw == [p \in elementsPairs |->
                LET w == FMul(FMul(molarFraction[p[1]], molarFraction[p[2]]),
                              FMul(weights[p[1]], weights[p[2]]))
                IN  IF p[1] = p[2] THEN w ELSE FMul(FromInt(2), w)]
      total == SumOver(raw, elementsPairs)
  IN  [p \in elementsPairs |-> FDiv(raw[p], total)]

(***************************************************************************)
(* The weights of the experimental points in use.                          *)
(***************************************************************************)
\* weights[lo:hi+1] of numpy for the points lo .. hi, counted from 1: a slice
\* ends where the array ends
Slice(weights, lo, hi) == [k \in 0 .. (Min(hi, Len(weights)) - lo) |-> weights[lo + k]]
\* used /= sum(used); used *= len(used)
Rescaled(used) ==
  LET over[total \in Float] ==
        [k \in DOMAIN used |->
           FMul(FDiv(used[k], total), FromInt(Cardinality(DOMAIN used)))]
  IN  over[SumOver(used, DOMAIN used)]
\* windowFunction /= np.sum(windowFunction)
DividedBySum(w) ==
  LET over[total \in Float] == [i \in DOMAIN w |-> FDiv(w[i], total)]
  IN  over[SumOver(w, DOMAIN w)]
\* the slice is stored before the assertion on its sum, which raises when the
\* sum is zero
set_used_data_weights(weights, lo, hi) ==
  IF weights = None THEN [raised |-> FALSE, usedDataWeights |-> None]
  ELSE LET of[used \in [0 .. (Min(hi, Len(Get(weights))) - lo) -> Float]] ==
             IF SumOver(used, DOMAIN used) = FZero
             THEN [raised |-> TRUE, usedDataWeights |-> Some(used)]
             ELSE [raised |-> FALSE, usedDataWeights |-> Some(Rescaled(used))]
       IN  of[Slice(Get(weights), lo, hi)]

(***************************************************************************)
(* Scale factor (fullrmc.Core.Constraint.ExperimentalConstraint).          *)
(***************************************************************************)
adjustScaleFactorMinimum == Ratio(9, 10)
adjustScaleFactorMaximum == Ratio(6, 5)
Weight(k) == IF usedDataWeights = None THEN FOne ELSE Get(usedDataWeights)[k]
\* analytic least squares: sum(W*Y*F) / sum(W*F*F)
fit_scale_factor(experimental, model) ==
  FDiv(SumOver([k \in Bins |-> FMul(Weight(k), FMul(experimental[k], model[k]))], Bins),
       SumOver([k \in Bins |-> FMul(Weight(k), FMul(model[k], model[k]))], Bins))
Clamp_Unbounded(x) == x
Clamp(x) ==
  IF x.nan THEN x
  ELSE IF FLess(x, adjustScaleFactorMinimum) THEN adjustScaleFactorMinimum
  ELSE IF FLess(adjustScaleFactorMaximum, x) THEN adjustScaleFactorMaximum
  ELSE x
\* a refit is due when the frequency is set and divides the engine's tried count
get_adjusted_scale_factor(experimental, model, sf, freq, nTried) ==
  IF freq # 0 /\ nTried % freq = 0 THEN Clamp(fit_scale_factor(experimental, model)) ELSE sf

(***************************************************************************)
(* The transform from histograms to the total G(r) and its error.          *)
(***************************************************************************)
\* numpy.convolve(Gr, window, 'same') for a window no longer than Gr
Convolve(Gr, w) ==
  LET m == Len(w)
      off == (m - 1) \div 2
  IN  [k \in Bins |->
         SumOver([i \in Bins |->
                    IF (k + off - i) \in 0 .. (m - 1)
                    THEN FMul(Gr[i], w[k + off - i + 1]) ELSE FZero], Bins)]
\* env: the populations, weighting scheme, accepted scale factor, adjustment
\* frequency and tried count the call reads
\* nij: the pairs of an element pair in bin k, both orders of the pair summed
nij(data, p, k) ==
  IF p[1] = p[2]
  THEN data.intra[<< p[1], p[2], k >>] + data.inter[<< p[1], p[2], k >>]
  ELSE data.intra[<< p[1], p[2], k >>] + data.intra[<< p[2], p[1], k >>]
       + data.inter[<< p[1], p[2], k >>] + data.inter[<< p[2], p[1], k >>]
\* Dij: ni*(ni-1)/2 or ni*nj pairs, per volume
Dij(env, p) ==
  IF p[1] = p[2]
  THEN FDiv(Ratio(env.numberOfAtomsPerElement[p[1]]
                    * (env.numberOfAtomsPerElement[p[1]] - 1), 2), volume)
  ELSE FDiv(FromInt(env.numberOfAtomsPerElement[p[1]]
                      * env.numberOfAtomsPerElement[p[2]]), volume)
\* bin k of 4 pi r rho0 (sum of wij nij / Dij / shell volume - 1), less the shape
TotalAt(data, rho0, env, k) ==
  FSub(FMul(FMul(FMul(FMul(FromInt(4), PI), shellCenters[k]), rho0),
            FSub(FDiv(SumOver([p \in elementsPairs |->
                                 FDiv(FMul(env.weightingScheme[p], FromInt(nij(data, p, k))),
                                      Dij(env, p))], elementsPairs),
                      shellVolumes[k]),
                 FOne)),
       IF shapeArray = None THEN FZero ELSE Get(shapeArray)[k])
\* Gr *= fittedScaleFactor unless it is 1
Scaled(Gr, fitted) ==
  [k \in Bins |-> IF fitted # FOne THEN FMul(Gr[k], fitted) ELSE Gr[k]]
Windowed(Gr) ==
  IF windowFunction = None THEN Gr ELSE Convolve(Gr, Get(windowFunction))
\* returns the total G(r) and the scale factor fitted on the way; the array and
\* the fitted factor are each computed once and then used
get_total_Gr(data, rho0, env) ==
  LET scaled[Gr \in [Bins -> Float], fitted \in Float] ==
        [Gr |-> Windowed(Scaled(Gr, fitted)), fittedScaleFactor |-> fitted]
      fit[Gr \in [Bins -> Float]] ==
        scaled[Gr, get_adjusted_scale_factor(experimentalPDF, Gr, env.scaleFactor,
                                             env.adjustScaleFactorFrequency, env.tried)]
  IN  fit[[k \in Bins |-> TotalAt(data, rho0, env, k)]]
\* _get_constraint_value: each pair's counts per shell volume and per expected
\* count, the total under the accepted scale factor ("pdf_total") and its
\* convolution with the window function ("pdf")
ConstraintValueAt(d, rho0, env, k) ==
  FSub(FMul(FMul(FMul(FMul(FromInt(4), PI), shellCenters[k]), rho0),
            FSub(SumOver([p \in elementsPairs |->
                            FDiv(FMul(env.weightingScheme[p],
                                      FDiv(FromInt(nij(d, p, k)), shellVolumes[k])),
                                 Dij(env, p))], elementsPairs),
                 FOne)),
       IF shapeArray = None THEN FZero ELSE Get(shapeArray)[k])
get_constraint_value(d, rho0, env) ==
  LET output[total \in [Bins -> Float]] == [pdf_total |-> total, pdf |-> Windowed(total)]
  IN  output[Scaled([k \in Bins |-> ConstraintValueAt(d, rho0, env, k)], env.scaleFactor)]
compute_standard_error(modelData) ==
  SumOver([k \in Bins |->
             LET diff == FSub(experimentalPDF[k], modelData[k])
             IN  IF usedDataWeights = None THEN FMul(diff, diff)
                 ELSE FMul(Get(usedDataWeights)[k], FMul(diff, diff))], Bins)
numberDensity == FDiv(FromInt(numberOfAtoms), volume)

(***************************************************************************)
(* State.  Engine: the shared coordinate store, the per-element            *)
(* populations, the tried counter and the position of the run loop.        *)
(* Constraint: the committed data and error, the in-flight deltas, the     *)
(* staged amputation, the scale factor and the weighting scheme.           *)
(* Call record: calls, lastCall and txn record what was called and how it  *)
(* ended; the program does not read them.                                  *)
(***************************************************************************)
VARIABLES boxCoordinates, numberOfAtomsPerElement, tried, engine,
          data, originalData, standardError,
          activeAtomsDataBeforeMove, activeAtomsDataAfterMove, afterMoveStandardError,
          amputationData, amputationStandardError,
          scaleFactor, fittedScaleFactor, adjustScaleFactorFrequency, weightingScheme,
          calls, lastCall, txn

engineVars == << boxCoordinates, numberOfAtomsPerElement, tried, engine >>
constraintVars == << data, originalData, standardError,
                     activeAtomsDataBeforeMove, activeAtomsDataAfterMove,
                     afterMoveStandardError, amputationData, amputationStandardError,
                     scaleFactor, fittedScaleFactor, adjustScaleFactorFrequency,
                     weightingScheme >>
callVars == << calls, lastCall, txn >>
vars == << systemVars, engineVars, constraintVars, configVars, correctionVars, kernelVars,
          callVars >>

\* engine._RT_moveGenerator.allowFittingScaleFactor
allowFittingScaleFactor == engine.allowFittingScaleFactor
Env == [weightingScheme |-> weightingScheme,
        numberOfAtomsPerElement |-> numberOfAtomsPerElement,
        scaleFactor |-> scaleFactor,
        adjustScaleFactorFrequency |-> adjustScaleFactorFrequency,
        tried |-> tried]

NoTxn == [phase |-> "none", relativeIndexes |-> {}, coords |-> << >>, moved |-> << >>,
          data |-> None, standardError |-> None, idle |-> FALSE,
          weightingScheme |-> << >>, numberOfAtomsPerElement |-> << >>]
Returned(op) == [op |-> op, raised |-> FALSE]
Raised(op) == [op |-> op, raised |-> TRUE]
Idle ==
  /\ activeAtomsDataBeforeMove = None
  /\ activeAtomsDataAfterMove = None
  /\ amputationData = None

InitialCoordinates == { << 0, 1, 3, 0 >> }
AdjustFrequencies == { 0, 1 }
Generators == { FALSE }

\* what the constructor is given for the weights of the experimental points,
\* the window function and the shape function
NoCorrections ==
  [dataWeights |-> None, windowFunction |-> None, shapeFuncParams |-> None, shapeUpdateFreq |-> 0]
InitWith(system, experiment, coordinates, generators, frequencies, populations, corrections) ==
  /\ elementsIndex = system.elementsIndex
  /\ moleculesIndex = system.moleculesIndex
  /\ basisVectors = system.basisVectors
  /\ boxCoordinates \in coordinates
  /\ experimentalData = experiment
  /\ limits = InitialLimits
  /\ \E given \in corrections :
        /\ dataWeights = given.dataWeights
        /\ usedDataWeights
             = set_used_data_weights(given.dataWeights, 1, Len(experiment)).usedDataWeights
        /\ windowFunction = given.windowFunction
        /\ shapeFuncParams = given.shapeFuncParams
        /\ shapeUpdateFreq = given.shapeUpdateFreq
  /\ shapeArray = None
  /\ lastShapeUpdate = None
  /\ kernel = KernelIdle
  /\ numberOfAtomsPerElement \in populations
  /\ tried = 0
  /\ engine \in [pc : {"init"}, steps : {0}, accepted : {0}, group : {{}}, moved : {<< >>},
                 allowFittingScaleFactor : generators]
  /\ data = None
  /\ originalData = None
  /\ standardError = None
  /\ activeAtomsDataBeforeMove = None
  /\ activeAtomsDataAfterMove = None
  /\ afterMoveStandardError = None
  /\ amputationData = None
  /\ amputationStandardError = None
  /\ scaleFactor = FOne
  /\ fittedScaleFactor = FOne
  /\ adjustScaleFactorFrequency \in frequencies
  /\ weightingScheme = get_normalized_weighting(numberOfAtomsPerElement, elementsWeight)
  /\ calls = 0
  /\ lastCall = Returned("init")
  /\ txn = NoTxn
InitFrom(system, experiment, coordinates, generators, frequencies, populations) ==
  InitWith(system, experiment, coordinates, generators, frequencies, populations,
           { NoCorrections })
Init ==
  InitFrom(InitialSystem, InitialExperimentalData, InitialCoordinates, Generators, AdjustFrequencies, { InitialPopulation })

(***************************************************************************)
(* Pieces of the handlers.                                                 *)
(***************************************************************************)
\* {"intra": intraM - intraF, "inter": interM - interF}: the indexed atoms
\* against the whole system, minus the pairs among the indexed atoms
ActiveAtomsData_WithoutSubsetPairs(coords, indexes) ==
  multiple_pairs_histograms_coords(coords, indexes)
ActiveAtomsData(coords, indexes) ==
  DataSub(multiple_pairs_histograms_coords(coords, indexes),
          full_pairs_histograms_coords(coords, indexes))
\* self.engine.boxCoordinates[relativeIndexes] = values
WriteCoordinates(coords, indexes, values) ==
  [a \in Atoms |-> IF a \in indexes THEN values[a] ELSE coords[a]]
\* boxData = np.array(self.engine.boxCoordinates[relativeIndexes])
CopyCoordinates(coords, indexes) == [a \in indexes |-> coords[a]]
\* self.engine.boxCoordinates[relativeIndexes] = boxData
ResetCoordinates_Skipped(written, indexes, boxData) == written
ResetCoordinates(written, indexes, boxData) == WriteCoordinates(written, indexes, boxData)
\* data - activeAtomsDataBeforeMove + activeAtomsDataAfterMove, in compute_after_move
HypotheticalData_WithoutAfter(d, before, after) == DataSub(d, before)
HypotheticalData_WithoutBefore(d, before, after) == DataAdd(d, after)
HypotheticalData(d, before, after) == DataAdd(DataSub(d, before), after)
\* the same expression in accept_move
AcceptedData_WithoutAfter(d, before, after) == DataSub(d, before)
AcceptedData(d, before, after) == DataAdd(DataSub(d, before), after)
\* if self.originalData is None: self._set_original_data(self.data)
OriginalData_Overwritten(original, d) == Some(d)
OriginalData(original, d) == IF original = None THEN Some(d) ELSE original
\* data - activeAtomsDataBeforeMove, in compute_as_if_amputated
AmputatedData_Unreduced(d, before) == d
AmputatedData(d, before) == DataSub(d, before)
\* the error of a histogram as the constraint computes it now
ErrorOf(d, rho0, env) ==
  LET of[g \in [Gr : [Bins -> Float], fittedScaleFactor : Float]] ==
        [standardError |-> compute_standard_error(g.Gr),
         fittedScaleFactor |-> g.fittedScaleFactor]
  IN  of[get_total_Gr(d, rho0, env)]

(***************************************************************************)
(* The handlers.  Each states the constraint's variables, the call record, *)
(* and the engine variables it writes itself.                              *)
(***************************************************************************)
\* compute_data without the two set_active_atoms_data_..._move(None)
compute_data_KeepingDeltas ==
  /\ calls' = calls + 1
  /\ UNCHANGED << systemVars, configVars, correctionVars, kernelVars >>
  /\ txn' = NoTxn
  /\ IF KernelRejects(boxCoordinates, Atoms)
     THEN /\ lastCall' = Raised("compute_data")
          /\ UNCHANGED constraintVars
     ELSE \E d \in { full_pairs_histograms_coords(boxCoordinates, Atoms) } :
          \E e \in { ErrorOf(d, numberDensity, Env) } :
              /\ lastCall' = Returned("compute_data")
              /\ data' = Some(d)
              /\ fittedScaleFactor' = e.fittedScaleFactor
              /\ standardError' = Some(e.standardError)
              /\ originalData' = OriginalData(originalData, d)
              /\ UNCHANGED << activeAtomsDataBeforeMove, activeAtomsDataAfterMove,
                              afterMoveStandardError, amputationData,
                              amputationStandardError, scaleFactor,
                              adjustScaleFactorFrequency, weightingScheme >>
compute_data ==
  /\ calls' = calls + 1
  /\ UNCHANGED << systemVars, configVars, correctionVars, kernelVars >>
  /\ txn' = NoTxn
  /\ IF KernelRejects(boxCoordinates, Atoms)
     THEN /\ lastCall' = Raised("compute_data")
          /\ UNCHANGED constraintVars
     ELSE \E d \in { full_pairs_histograms_coords(boxCoordinates, Atoms) } :
          \E e \in { ErrorOf(d, numberDensity, Env) } :
              /\ lastCall' = Returned("compute_data")
              /\ data' = Some(d)
              /\ activeAtomsDataBeforeMove' = None
              /\ activeAtomsDataAfterMove' = None
              /\ fittedScaleFactor' = e.fittedScaleFactor
              /\ standardError' = Some(e.standardError)
              /\ originalData' = OriginalData(originalData, d)
              /\ UNCHANGED << afterMoveStandardError, amputationData,
                              amputationStandardError, scaleFactor,
                              adjustScaleFactorFrequency, weightingScheme >>

compute_before_move(relativeIndexes) ==
  /\ calls' = calls + 1
  /\ UNCHANGED << systemVars, configVars, correctionVars, kernelVars >>
  /\ IF KernelRejects(boxCoordinates, Atoms)
     THEN /\ lastCall' = Raised("compute_before_move")
          /\ txn' = NoTxn
          /\ UNCHANGED constraintVars
     ELSE /\ lastCall' = Returned("compute_before_move")
          /\ txn' = [phase |-> "before", relativeIndexes |-> relativeIndexes,
                     coords |-> boxCoordinates, moved |-> << >>, data |-> data,
                     standardError |-> standardError, idle |-> Idle,
                     weightingScheme |-> weightingScheme,
                     numberOfAtomsPerElement |-> numberOfAtomsPerElement]
          /\ activeAtomsDataBeforeMove' = Some(ActiveAtomsData(boxCoordinates, relativeIndexes))
          /\ activeAtomsDataAfterMove' = None
          /\ UNCHANGED << data, originalData, standardError, afterMoveStandardError,
                          amputationData, amputationStandardError, scaleFactor,
                          fittedScaleFactor, adjustScaleFactorFrequency, weightingScheme >>

compute_after_move(relativeIndexes, movedBoxCoordinates) ==
  \E boxData \in { CopyCoordinates(boxCoordinates, relativeIndexes) } :
  \E written \in { WriteCoordinates(boxCoordinates, relativeIndexes, movedBoxCoordinates) } :
  /\ calls' = calls + 1
  /\ UNCHANGED << systemVars, configVars, correctionVars, kernelVars >>
  /\ IF KernelRejects(written, Atoms)
     THEN \* the kernel raises: the call ends between the write and the reset
          /\ lastCall' = Raised("compute_after_move")
          /\ txn' = NoTxn
          /\ boxCoordinates' = written
          /\ UNCHANGED constraintVars
     ELSE \E after \in { ActiveAtomsData(written, relativeIndexes) } :
          /\ activeAtomsDataAfterMove' = Some(after)
          /\ boxCoordinates' = ResetCoordinates(written, relativeIndexes, boxData)
          /\ IF data = None \/ activeAtomsDataBeforeMove = None
             THEN \* None["intra"] raises a TypeError after the reset
                  /\ lastCall' = Raised("compute_after_move")
                  /\ txn' = NoTxn
                  /\ UNCHANGED << data, originalData, standardError,
                                  activeAtomsDataBeforeMove, afterMoveStandardError,
                                  amputationData, amputationStandardError, scaleFactor,
                                  fittedScaleFactor, adjustScaleFactorFrequency,
                                  weightingScheme >>
             ELSE \E e \in { ErrorOf(HypotheticalData(Get(data), Get(activeAtomsDataBeforeMove),
                                                      after), numberDensity, Env) } :
                      /\ lastCall' = Returned("compute_after_move")
                      /\ txn' = IF /\ txn.phase = "before"
                                   /\ txn.relativeIndexes = relativeIndexes
                                   /\ txn.coords = boxCoordinates
                                THEN [txn EXCEPT !.phase = "after", !.moved = movedBoxCoordinates]
                                ELSE NoTxn
                      /\ fittedScaleFactor' = e.fittedScaleFactor
                      /\ afterMoveStandardError' = Some(e.standardError)
                      /\ UNCHANGED << data, originalData, standardError,
                                      activeAtomsDataBeforeMove, amputationData,
                                      amputationStandardError, scaleFactor,
                                      adjustScaleFactorFrequency, weightingScheme >>

accept_move ==
  /\ calls' = calls + 1
  /\ UNCHANGED << systemVars, configVars, correctionVars, kernelVars >>
  /\ IF data = None \/ activeAtomsDataBeforeMove = None \/ activeAtomsDataAfterMove = None
     THEN /\ lastCall' = Raised("accept_move")
          /\ txn' = NoTxn
          /\ UNCHANGED constraintVars
     ELSE /\ lastCall' = Returned("accept_move")
          /\ txn' = IF txn.phase = "after" THEN [txn EXCEPT !.phase = "committed"] ELSE NoTxn
          /\ data' = Some(AcceptedData(Get(data), Get(activeAtomsDataBeforeMove),
                                       Get(activeAtomsDataAfterMove)))
          /\ activeAtomsDataBeforeMove' = None
          /\ activeAtomsDataAfterMove' = None
          /\ standardError' = afterMoveStandardError
          /\ afterMoveStandardError' = None
          /\ scaleFactor' = fittedScaleFactor
          /\ UNCHANGED << originalData, amputationData, amputationStandardError,
                          fittedScaleFactor, adjustScaleFactorFrequency, weightingScheme >>

reject_move_AdoptingStagedError ==
  /\ calls' = calls + 1
  /\ UNCHANGED << systemVars, configVars, correctionVars, kernelVars >>
  /\ lastCall' = Returned("reject_move")
  /\ txn' = IF txn.phase \in {"before", "after"} THEN [txn EXCEPT !.phase = "discarded"] ELSE NoTxn
  /\ activeAtomsDataBeforeMove' = None
  /\ activeAtomsDataAfterMove' = None
  /\ standardError' = afterMoveStandardError
  /\ afterMoveStandardError' = None
  /\ UNCHANGED << data, originalData, amputationData,
                  amputationStandardError, scaleFactor, fittedScaleFactor,
                  adjustScaleFactorFrequency, weightingScheme >>
reject_move ==
  /\ calls' = calls + 1
  /\ UNCHANGED << systemVars, configVars, correctionVars, kernelVars >>
  /\ lastCall' = Returned("reject_move")
  /\ txn' = IF txn.phase \in {"before", "after"} THEN [txn EXCEPT !.phase = "discarded"] ELSE NoTxn
  /\ activeAtomsDataBeforeMove' = None
  /\ activeAtomsDataAfterMove' = None
  /\ afterMoveStandardError' = None
  /\ UNCHANGED << data, originalData, standardError, amputationData,
                  amputationStandardError, scaleFactor, fittedScaleFactor,
                  adjustScaleFactorFrequency, weightingScheme >>

\* the refit frequency in force during the evaluation of an amputation
AmputationFrequency_Unsuppressed == adjustScaleFactorFrequency
AmputationFrequency == IF allowFittingScaleFactor THEN adjustScaleFactorFrequency ELSE 0
compute_as_if_amputated(relativeIndex) ==
  /\ calls' = calls + 1
  /\ UNCHANGED << systemVars, configVars, correctionVars, kernelVars >>
  /\ IF KernelRejects(boxCoordinates, Atoms)
     THEN \* compute_before_move raises in the kernel
          /\ lastCall' = Raised("compute_as_if_amputated")
          /\ txn' = NoTxn
          /\ UNCHANGED << constraintVars, numberOfAtomsPerElement >>
     ELSE \E before \in { ActiveAtomsData(boxCoordinates, {relativeIndex}) } :
          \E reduced \in { [numberOfAtomsPerElement EXCEPT ![elementsIndex[relativeIndex]] = @ - 1] } :
          IF data = None
          THEN \* compute_before_move has stored its delta; None["intra"] raises
               /\ lastCall' = Raised("compute_as_if_amputated")
               /\ txn' = NoTxn
               /\ activeAtomsDataBeforeMove' = Some(before)
               /\ activeAtomsDataAfterMove' = None
               /\ UNCHANGED << data, originalData, standardError, afterMoveStandardError,
                               amputationData, amputationStandardError, scaleFactor,
                               fittedScaleFactor, adjustScaleFactorFrequency,
                               weightingScheme, numberOfAtomsPerElement >>
          ELSE IF IntSum(reduced) = 0
          THEN \* get_normalized_weighting divides by the number of atoms
               /\ lastCall' = Raised("compute_as_if_amputated")
               /\ txn' = NoTxn
               /\ activeAtomsDataBeforeMove' = Some(before)
               /\ activeAtomsDataAfterMove' = None
               /\ numberOfAtomsPerElement' = reduced
               /\ UNCHANGED << data, originalData, standardError, afterMoveStandardError,
                               amputationData, amputationStandardError, scaleFactor,
                               fittedScaleFactor, adjustScaleFactorFrequency,
                               weightingScheme >>
          ELSE \E d \in { AmputatedData(Get(data), before) } :
               \E scheme \in { get_normalized_weighting(reduced, elementsWeight) } :
               \E frequency \in { AmputationFrequency } :
               \E e \in { ErrorOf(d, FDiv(FromInt(numberOfAtoms - 1), volume),
                                  [Env EXCEPT !.weightingScheme = scheme,
                                              !.numberOfAtomsPerElement = reduced,
                                              !.adjustScaleFactorFrequency = frequency]) } :
                   /\ lastCall' = Returned("compute_as_if_amputated")
                   /\ txn' = [phase |-> "amputated", relativeIndexes |-> {relativeIndex},
                              coords |-> boxCoordinates, moved |-> << >>, data |-> data,
                              standardError |-> standardError, idle |-> Idle,
                              weightingScheme |-> weightingScheme,
                              numberOfAtomsPerElement |-> numberOfAtomsPerElement]
                   /\ activeAtomsDataBeforeMove' = None
                   /\ activeAtomsDataAfterMove' = None
                   /\ amputationData' = Some([data |-> d, weightingScheme |-> scheme])
                   /\ amputationStandardError' = Some(e.standardError)
                   /\ fittedScaleFactor' = e.fittedScaleFactor
                   /\ UNCHANGED << data, originalData, standardError, afterMoveStandardError,
                                   scaleFactor, adjustScaleFactorFrequency, weightingScheme,
                                   numberOfAtomsPerElement >>

accept_amputation_KeepingScheme ==
  /\ calls' = calls + 1
  /\ UNCHANGED << systemVars, configVars, correctionVars, kernelVars >>
  /\ IF amputationData = None
     THEN /\ lastCall' = Raised("accept_amputation")
          /\ txn' = NoTxn
          /\ UNCHANGED constraintVars
     ELSE /\ lastCall' = Returned("accept_amputation")
          /\ txn' = IF txn.phase = "amputated"
                    THEN [txn EXCEPT !.phase = "amputation accepted"] ELSE NoTxn
          /\ data' = Some(Get(amputationData).data)
          /\ standardError' = amputationStandardError
          /\ amputationData' = None
          /\ amputationStandardError' = None
          /\ scaleFactor' = fittedScaleFactor
          /\ UNCHANGED << originalData, activeAtomsDataBeforeMove, activeAtomsDataAfterMove,
                          afterMoveStandardError, fittedScaleFactor,
                          adjustScaleFactorFrequency, weightingScheme >>
accept_amputation ==
  /\ calls' = calls + 1
  /\ UNCHANGED << systemVars, configVars, correctionVars, kernelVars >>
  /\ IF amputationData = None
     THEN /\ lastCall' = Raised("accept_amputation")
          /\ txn' = NoTxn
          /\ UNCHANGED constraintVars
     ELSE /\ lastCall' = Returned("accept_amputation")
          /\ txn' = IF txn.phase = "amputated"
                    THEN [txn EXCEPT !.phase = "amputation accepted"] ELSE NoTxn
          /\ data' = Some(Get(amputationData).data)
          /\ weightingScheme' = Get(amputationData).weightingScheme
          /\ standardError' = amputationStandardError
          /\ amputationData' = None
          /\ amputationStandardError' = None
          /\ scaleFactor' = fittedScaleFactor
          /\ UNCHANGED << originalData, activeAtomsDataBeforeMove, activeAtomsDataAfterMove,
                          afterMoveStandardError, fittedScaleFactor,
                          adjustScaleFactorFrequency >>

reject_amputation_AdoptingStagedError ==
  /\ calls' = calls + 1
  /\ UNCHANGED << systemVars, configVars, correctionVars, kernelVars >>
  /\ txn' = IF txn.phase = "amputated"
            THEN [txn EXCEPT !.phase = "amputation rejected"] ELSE NoTxn
  /\ lastCall' = Returned("reject_amputation")
  /\ standardError' = amputationStandardError
  /\ amputationData' = None
  /\ amputationStandardError' = None
  /\ UNCHANGED << data, originalData, activeAtomsDataBeforeMove,
                  activeAtomsDataAfterMove, afterMoveStandardError, scaleFactor,
                  fittedScaleFactor, adjustScaleFactorFrequency, weightingScheme >>
reject_amputation ==
  /\ calls' = calls + 1
  /\ UNCHANGED << systemVars, configVars, correctionVars, kernelVars >>
  /\ txn' = IF txn.phase = "amputated"
            THEN [txn EXCEPT !.phase = "amputation rejected"] ELSE NoTxn
  /\ lastCall' = Returned("reject_amputation")
  /\ amputationData' = None
  /\ amputationStandardError' = None
  /\ UNCHANGED << data, originalData, standardError, activeAtomsDataBeforeMove,
                  activeAtomsDataAfterMove, afterMoveStandardError, scaleFactor,
                  fittedScaleFactor, adjustScaleFactorFrequency, weightingScheme >>

(***************************************************************************)
(* Configuration handlers: listen, set_limits, set_experimental_data.      *)
(***************************************************************************)
\* Constraint.reset_constraint: the committed and the staged values are dropped
reset_constraint_Skipped ==
  UNCHANGED << data, originalData, standardError, activeAtomsDataBeforeMove,
               activeAtomsDataAfterMove, afterMoveStandardError, amputationData,
               amputationStandardError >>
reset_constraint ==
  /\ data' = None
  /\ originalData' = None
  /\ standardError' = None
  /\ activeAtomsDataBeforeMove' = None
  /\ activeAtomsDataAfterMove' = None
  /\ afterMoveStandardError' = None
  /\ amputationData' = None
  /\ amputationStandardError' = None

\* the record of a call that has reset the constraint: what it has dropped
Dropped == [NoTxn EXCEPT !.phase = "reset", !.data = data, !.standardError = standardError,
                         !.weightingScheme = weightingScheme]
Messages == { "engine set", "update molecules indexes", "update boundary conditions" }
Heard(message) == [op |-> "listen", raised |-> FALSE, message |-> message]
listen_KeepingScheme(message) ==
  /\ calls' = calls + 1
  /\ UNCHANGED systemVars
  /\ txn' = Dropped
  /\ lastCall' = Heard(message)
  /\ reset_constraint
  /\ UNCHANGED << scaleFactor, fittedScaleFactor, adjustScaleFactorFrequency,
                  weightingScheme, configVars, correctionVars, kernelVars >>
listen(message) ==
  /\ calls' = calls + 1
  /\ UNCHANGED systemVars
  /\ txn' = Dropped
  /\ lastCall' = Heard(message)
  /\ weightingScheme' =
       IF message \in { "engine set", "update molecules indexes" }
       THEN get_normalized_weighting(numberOfAtomsPerElement, elementsWeight)
       ELSE weightingScheme
  /\ reset_constraint
  /\ UNCHANGED << scaleFactor, fittedScaleFactor, adjustScaleFactorFrequency, configVars,
                  correctionVars, kernelVars >>

\* the assertions of set_limits on a pair of limits
LimitsRejected(l) ==
  \/ l[1] # None /\ Get(l[1]) < 0
  \/ l[2] # None /\ Get(l[2]) <= 0
  \/ l[1] # None /\ l[2] # None /\ Get(l[1]) >= Get(l[2])
set_limits(l) ==
  /\ calls' = calls + 1
  /\ UNCHANGED << systemVars, kernelVars >>
  /\ IF l # None /\ LimitsRejected(l)
     THEN /\ lastCall' = Raised("set_limits")
          /\ txn' = NoTxn
          /\ UNCHANGED << constraintVars, configVars, correctionVars >>
     ELSE /\ limits' = IF l = None THEN << None, None >> ELSE l
          /\ UNCHANGED << experimentalData, dataWeights, windowFunction, shapeFuncParams,
                          shapeUpdateFreq, shapeArray, lastShapeUpdate, scaleFactor,
                          fittedScaleFactor, adjustScaleFactorFrequency, weightingScheme >>
          /\ \E used \in { set_used_data_weights(dataWeights, minDistIdx', maxDistIdx') } :
                /\ usedDataWeights' = used.usedDataWeights
                /\ IF used.raised
                   THEN \* the assertion on the used weights raises before the reset
                        /\ lastCall' = Raised("set_limits")
                        /\ txn' = NoTxn
                        /\ UNCHANGED << data, originalData, standardError,
                                        activeAtomsDataBeforeMove, activeAtomsDataAfterMove,
                                        afterMoveStandardError, amputationData,
                                        amputationStandardError >>
                   ELSE /\ lastCall' = Returned("set_limits")
                        /\ txn' = Dropped
                        /\ reset_constraint

\* sorted(experimentalData[:,0])
Sorted(column) ==
  [i \in DOMAIN column |->
     CHOOSE v \in { column[j] : j \in DOMAIN column } :
       /\ Cardinality({ j \in DOMAIN column : column[j] < v }) < i
       /\ i <= Cardinality({ j \in DOMAIN column : column[j] <= v })]
\* no distance is below the one sorting puts in its place
inOrder(e) ==
  LET column == [i \in DOMAIN e |-> e[i].r]
  IN  \A i \in DOMAIN e : Sorted(column)[i] - column[i] <= 0
\* StructureFactorConstraint.check_experimental_data: distances in order, none
\* negative
check_experimental_data_Sq(e) ==
  /\ inOrder(e)
  /\ e[1].r >= 0
\* the check without the test of the order
check_experimental_data_Unordered(e) ==
  /\ e[1].r >= 0
  /\ \A i \in 1 .. (Len(e) - 1) : e[i + 1].r - e[i].r = e[2].r - e[1].r
\* distances in order, none negative, evenly spaced
check_experimental_data(e) ==
  /\ inOrder(e)
  /\ e[1].r >= 0
  /\ \A i \in 1 .. (Len(e) - 1) : e[i + 1].r - e[i].r = e[2].r - e[1].r
set_experimental_data(e) ==
  /\ calls' = calls + 1
  /\ UNCHANGED << systemVars, kernelVars >>
  /\ IF ~check_experimental_data(e)
     THEN /\ lastCall' = Raised("set_experimental_data")
          /\ txn' = NoTxn
          /\ UNCHANGED << constraintVars, configVars, correctionVars >>
     ELSE /\ experimentalData' = e
          /\ UNCHANGED << limits, dataWeights, windowFunction, shapeFuncParams,
                          shapeUpdateFreq, shapeArray, lastShapeUpdate, scaleFactor,
                          fittedScaleFactor, adjustScaleFactorFrequency, weightingScheme >>
          \* self.set_limits(self.__limits)
          /\ \E used \in { set_used_data_weights(dataWeights, minDistIdx', maxDistIdx') } :
                /\ usedDataWeights' = used.usedDataWeights
                /\ IF used.raised
                   THEN /\ lastCall' = Raised("set_experimental_data")
                        /\ txn' = NoTxn
                        /\ UNCHANGED << data, originalData, standardError,
                                        activeAtomsDataBeforeMove, activeAtomsDataAfterMove,
                                        afterMoveStandardError, amputationData,
                                        amputationStandardError >>
                   ELSE /\ lastCall' = Returned("set_experimental_data")
                        /\ txn' = Dropped
                        /\ reset_constraint

\* the window is divided by its sum and stored; nothing is computed again
set_window_function(w) ==
  /\ calls' = calls + 1
  /\ txn' = NoTxn
  /\ UNCHANGED << systemVars, kernelVars, configVars, constraintVars, dataWeights,
                  usedDataWeights, shapeFuncParams, shapeUpdateFreq, shapeArray,
                  lastShapeUpdate >>
  /\ IF w # None /\ Len(Get(w)) > Len(experimentalData)
     THEN /\ lastCall' = Raised("set_window_function")
          /\ UNCHANGED windowFunction
     ELSE /\ lastCall' = Returned("set_window_function")
          /\ windowFunction' = IF w = None THEN None ELSE Some(DividedBySum(Get(w)))

\* totalPDF = self.get_constraint_value()["pdf_total"]: get_constraint_value
\* returns an empty dictionary while there is no data
compute_and_set_standard_error ==
  /\ calls' = calls + 1
  /\ txn' = NoTxn
  /\ UNCHANGED << systemVars, kernelVars, configVars, correctionVars >>
  /\ IF data = None
     THEN /\ lastCall' = Raised("compute_and_set_standard_error")
          /\ UNCHANGED constraintVars
     ELSE /\ lastCall' = Returned("compute_and_set_standard_error")
          /\ standardError'
               = Some(compute_standard_error(get_constraint_value(Get(data), numberDensity,
                                                                   Env).pdf_total))
          /\ UNCHANGED << data, originalData, activeAtomsDataBeforeMove,
                          activeAtomsDataAfterMove, afterMoveStandardError, amputationData,
                          amputationStandardError, scaleFactor, fittedScaleFactor,
                          adjustScaleFactorFrequency, weightingScheme >>

\* the shape function parameters: None, the parameters of a shape function
\* computed from the engine's atoms, or an array given as it is
LiveShape == Some([kind |-> "dict", array |-> << >>])
ArrayShape(a) == Some([kind |-> "array", array |-> a])
DefaultUpdateFreq == 1000
\* ShapeFunction(engine, ...).get_Gr_shape_function(shellCenters): an array
\* over the shells that depends on where the engine's atoms are
get_Gr_shape_function(coords) ==
  [k \in Bins |-> FromInt(Cardinality({ a \in DOMAIN coords : coords[a] = k }))]
\* updateFreq: None for a dictionary without the key
set_shape_function_parameters(p, updateFreq) ==
  /\ calls' = calls + 1
  /\ UNCHANGED << systemVars, kernelVars, configVars, constraintVars, txn >>
  /\ UNCHANGED << dataWeights, usedDataWeights, windowFunction, lastShapeUpdate >>
  /\ shapeArray' = None
  /\ IF p = None
     THEN /\ lastCall' = Returned("set_shape_function_parameters")
          /\ shapeFuncParams' = None
          /\ shapeUpdateFreq' = 0
     ELSE IF Get(p).kind = "dict"
     THEN /\ lastCall' = Returned("set_shape_function_parameters")
          /\ shapeFuncParams' = p
          /\ shapeUpdateFreq' = IF updateFreq = None THEN DefaultUpdateFreq ELSE Get(updateFreq)
     ELSE IF Len(Get(p).array) # Len(experimentalData)
     THEN /\ lastCall' = Raised("set_shape_function_parameters")
          /\ UNCHANGED << shapeFuncParams, shapeUpdateFreq >>
     ELSE /\ lastCall' = Returned("set_shape_function_parameters")
          /\ shapeFuncParams' = p
          /\ shapeUpdateFreq' = 0

\* _reset_standard_error, once the shape array of the next state is set: the
\* error of the committed data is computed again through the transform
reset_standard_error ==
  /\ UNCHANGED << data, originalData, activeAtomsDataBeforeMove, activeAtomsDataAfterMove,
                  afterMoveStandardError, amputationData, amputationStandardError,
                  scaleFactor, adjustScaleFactorFrequency, weightingScheme >>
  /\ IF data = None
     THEN UNCHANGED << standardError, fittedScaleFactor >>
     ELSE \E e \in { ErrorOf(Get(data), numberDensity, Env)' } :
            /\ fittedScaleFactor' = e.fittedScaleFactor
            /\ standardError' = Some(e.standardError)
\* the engine's counters and coordinates are read, not written
runtime_initialize ==
  /\ calls' = calls + 1
  /\ lastCall' = Returned("_runtime_initialize")
  /\ UNCHANGED << systemVars, kernelVars, configVars, txn >>
  /\ UNCHANGED << dataWeights, usedDataWeights, windowFunction, shapeFuncParams,
                  shapeUpdateFreq >>
  /\ shapeArray' = IF shapeFuncParams = None THEN None
                   ELSE IF Get(shapeFuncParams).kind = "array"
                   THEN Some(Slice(Get(shapeFuncParams).array, minDistIdx, maxDistIdx))
                   ELSE IF shapeArray = None
                   THEN Some(get_Gr_shape_function(boxCoordinates))
                   ELSE shapeArray
  /\ lastShapeUpdate' = Some(engine.accepted)
  /\ reset_standard_error
\* the test of _runtime_on_step
ShapeUpdateDue_EveryMultiple ==
  /\ shapeUpdateFreq # 0 /\ shapeFuncParams # None
  /\ engine.accepted % shapeUpdateFreq = 0
ShapeUpdateDue ==
  /\ shapeUpdateFreq # 0 /\ shapeFuncParams # None
  /\ lastShapeUpdate # Some(engine.accepted)
  /\ engine.accepted % shapeUpdateFreq = 0
\* the call record tells whether the shape array was computed again
OnStep(updated) == [op |-> "_runtime_on_step", raised |-> FALSE, updated |-> updated]
runtime_on_step ==
  /\ calls' = calls + 1
  /\ UNCHANGED << systemVars, kernelVars, configVars, txn >>
  /\ UNCHANGED << dataWeights, usedDataWeights, windowFunction, shapeFuncParams,
                  shapeUpdateFreq >>
  /\ IF ShapeUpdateDue
     THEN /\ lastCall' = OnStep(TRUE)
          /\ shapeArray' = Some(get_Gr_shape_function(boxCoordinates))
          /\ lastShapeUpdate' = Some(engine.accepted)
          /\ reset_standard_error
     ELSE /\ lastCall' = OnStep(FALSE)
          /\ UNCHANGED << shapeArray, lastShapeUpdate, constraintVars >>

\* ExperimentalConstraint.set_data_weights takes weights that are one per
\* experimental point, none negative and not all zero, and scales them to sum
\* to the number of points
DataWeightsRejected(w) ==
  \/ Len(w) # Len(experimentalData)
  \/ \E i \in DOMAIN w : w[i].nan \/ FLess(w[i], FZero)
  \/ \A i \in DOMAIN w : w[i] = FZero
\* self.__set_used_data_weights() follows without the indexes of the limits:
\* minDistIdx is 0 and maxDistIdx the number of experimental points
set_data_weights(w) ==
  /\ calls' = calls + 1
  /\ txn' = NoTxn
  /\ UNCHANGED << systemVars, kernelVars, configVars, constraintVars, windowFunction,
                  shapeFuncParams, shapeUpdateFreq, shapeArray, lastShapeUpdate >>
  /\ IF w # None /\ DataWeightsRejected(Get(w))
     THEN /\ lastCall' = Raised("set_data_weights")
          /\ UNCHANGED << dataWeights, usedDataWeights >>
     ELSE \E given \in { IF w = None THEN None ELSE Some(Rescaled(Get(w))) } :
          \E used \in { set_used_data_weights(given, 1, Len(experimentalData) + 1) } :
             /\ dataWeights' = given
             /\ usedDataWeights' = used.usedDataWeights
             /\ lastCall' = IF used.raised THEN Raised("set_data_weights")
                            ELSE Returned("set_data_weights")

(***************************************************************************)
(* Specification Spec: a client that calls the handlers in any order.      *)
(***************************************************************************)
\* the groups and atoms this client passes, and the trial coordinates of a group:
\* shifted as a whole, gathered in one cell (which changes the distances inside
\* the group), or not numbers
ClientGroups == { {1}, {2, 3}, Atoms }
ClientAtoms == { 1, 4 }
Shifted(indexes, by) == [a \in indexes |-> (boxCoordinates[a] + by) % BoxCells]
Gathered(indexes, cell) == [a \in indexes |-> cell]
TrialCoordinates(indexes) ==
  { Shifted(indexes, 1), Gathered(indexes, 0), Gathered(indexes, CoordNaN) }

ComputeData ==
  /\ calls < MaxCalls
  /\ compute_data
  /\ UNCHANGED engineVars
ComputeBeforeMove ==
  /\ calls < MaxCalls
  /\ \E relativeIndexes \in ClientGroups : compute_before_move(relativeIndexes)
  /\ UNCHANGED engineVars
ComputeAfterMove ==
  /\ calls < MaxCalls
  /\ \E relativeIndexes \in ClientGroups :
       \E movedBoxCoordinates \in TrialCoordinates(relativeIndexes) :
          compute_after_move(relativeIndexes, movedBoxCoordinates)
  /\ UNCHANGED << numberOfAtomsPerElement, tried, engine >>
AcceptMove ==
  /\ calls < MaxCalls
  /\ accept_move
  /\ UNCHANGED engineVars
RejectMove ==
  /\ calls < MaxCalls
  /\ reject_move
  /\ UNCHANGED engineVars
ComputeAsIfAmputated ==
  /\ calls < MaxCalls
  /\ \E relativeIndex \in ClientAtoms : compute_as_if_amputated(relativeIndex)
  /\ UNCHANGED << boxCoordinates, tried, engine >>
AcceptAmputation ==
  /\ calls < MaxCalls
  /\ accept_amputation
  /\ UNCHANGED engineVars
RejectAmputation ==
  /\ calls < MaxCalls
  /\ reject_amputation
  /\ UNCHANGED engineVars

Next ==
  \/ ComputeData
  \/ ComputeBeforeMove
  \/ ComputeAfterMove
  \/ AcceptMove
  \/ RejectMove
  \/ ComputeAsIfAmputated
  \/ AcceptAmputation
  \/ RejectAmputation

Spec == Init /\ [][Next]_vars

(***************************************************************************)
(* Specification SpecEngine: the owning engine's run loop.  It computes    *)
(* the data once, then per step picks a group, asks for the before and     *)
(* after contributions of its move, and accepts (writing the moved         *)
(* coordinates into the store) or rejects.                                 *)
(***************************************************************************)
EngineInitialCoordinates == { << 0, 1, 3, 0 >>, << 0, 0, 0, 0 >>, << 2, 0, 3, 1 >> }
InitEngine ==
  InitFrom(InitialSystem, InitialExperimentalData, EngineInitialCoordinates, Generators,
           AdjustFrequencies, { InitialPopulation })
EngineGroups == (SUBSET Atoms) \ { {} }
\* a generated move keeps each atom of the group or takes it to the next cell
EngineMoves(indexes) ==
  { [a \in indexes |-> (boxCoordinates[a] + s[a]) % BoxCells] : s \in [indexes -> {0, 1}] }

EngineInitialize ==
  /\ engine.pc = "init"
  /\ compute_data
  /\ engine' = [engine EXCEPT !.pc = "idle"]
  /\ UNCHANGED << boxCoordinates, numberOfAtomsPerElement, tried >>
EngineBeforeMove ==
  /\ engine.pc = "idle"
  /\ engine.steps < MaxSteps
  /\ \E group \in EngineGroups :
        /\ compute_before_move(group)
        /\ engine' = [engine EXCEPT !.pc = "before", !.group = group]
  /\ tried' = tried + 1
  /\ UNCHANGED << boxCoordinates, numberOfAtomsPerElement >>
EngineAfterMove ==
  /\ engine.pc = "before"
  /\ \E movedBoxCoordinates \in EngineMoves(engine.group) :
        /\ compute_after_move(engine.group, movedBoxCoordinates)
        /\ engine' = [engine EXCEPT !.pc = "after", !.moved = movedBoxCoordinates]
  /\ UNCHANGED << numberOfAtomsPerElement, tried >>
EngineAccept ==
  /\ engine.pc = "after"
  /\ accept_move
  /\ boxCoordinates' = WriteCoordinates(boxCoordinates, engine.group, engine.moved)
  /\ engine' = [engine EXCEPT !.pc = "idle", !.steps = @ + 1, !.accepted = @ + 1,
                               !.group = {}, !.moved = << >>]
  /\ UNCHANGED << numberOfAtomsPerElement, tried >>
EngineReject ==
  /\ engine.pc = "after"
  /\ reject_move
  /\ engine' = [engine EXCEPT !.pc = "idle", !.steps = @ + 1, !.group = {}, !.moved = << >>]
  /\ UNCHANGED << boxCoordinates, numberOfAtomsPerElement, tried >>

NextEngine ==
  \/ EngineInitialize
  \/ EngineBeforeMove
  \/ EngineAfterMove
  \/ EngineAccept
  \/ EngineReject

SpecEngine == InitEngine /\ [][NextEngine]_vars

(***************************************************************************)
(* Specification SpecRun: the run loop with removal steps next to the      *)
(* moves, under move generators that allow fitting the scale factor or do  *)
(* not, and under refit frequencies that make a refit due at every step,   *)
(* at every second step or never.                                          *)
(***************************************************************************)
RunAdjustFrequencies == { 0, 1, 2 }
RunGenerators == BOOLEAN
InitRun ==
  InitFrom(InitialSystem, InitialExperimentalData, InitialCoordinates, RunGenerators,
           RunAdjustFrequencies, { InitialPopulation })

\* the data is computed again once steps have been made, which ends the run
EngineRecompute ==
  /\ engine.pc = "idle"
  /\ engine.steps >= 1
  /\ compute_data
  /\ engine' = [engine EXCEPT !.pc = "done"]
  /\ UNCHANGED << boxCoordinates, numberOfAtomsPerElement, tried >>
\* a removal step: the run is followed up to its first accepted removal
EngineAmputate ==
  /\ engine.pc = "idle"
  /\ engine.steps < MaxSteps
  /\ \E relativeIndex \in Atoms :
        /\ compute_as_if_amputated(relativeIndex)
        /\ engine' = [engine EXCEPT !.pc = "amputated", !.group = {relativeIndex}]
  /\ tried' = tried + 1
  /\ UNCHANGED boxCoordinates
EngineAcceptAmputation ==
  /\ engine.pc = "amputated"
  /\ accept_amputation
  /\ engine' = [engine EXCEPT !.pc = "removed", !.steps = @ + 1]
  /\ UNCHANGED << boxCoordinates, numberOfAtomsPerElement, tried >>
EngineRejectAmputation ==
  /\ engine.pc = "amputated"
  /\ reject_amputation
  /\ engine' = [engine EXCEPT !.pc = "idle", !.steps = @ + 1, !.group = {}]
  /\ UNCHANGED << boxCoordinates, numberOfAtomsPerElement, tried >>

NextRun ==
  \/ EngineInitialize
  \/ EngineBeforeMove
  \/ EngineAfterMove
  \/ EngineAccept
  \/ EngineReject
  \/ EngineAmputate
  \/ EngineAcceptAmputation
  \/ EngineRejectAmputation
  \/ EngineRecompute

SpecRun == InitRun /\ [][NextRun]_vars

(***************************************************************************)
(* Specification SpecSetup: a client that configures the constraint and    *)
(* is notified by the engine between computations, moves and amputations.  *)
(***************************************************************************)
SetupLimits == { None, << None, Some(2) >>, << Some(4), None >>, << Some(4), Some(2) >> }
SetupExperimentalData ==
  { InitialExperimentalData,
    << [r |-> 4, y |-> FromInt(-22)], [r |-> 6, y |-> FromInt(-10)] >>,
    << [r |-> 4, y |-> FromInt(-22)], [r |-> 2, y |-> FromInt(-10)] >> }
SetupGroups == { {2, 3} }
SetupAtoms == { 1 }
InitSetup ==
  InitFrom(InitialSystem, InitialExperimentalData, InitialCoordinates, Generators, { 1 },
           { InitialPopulation })

SetupComputeData ==
  /\ calls < MaxCalls
  /\ compute_data
  /\ UNCHANGED engineVars
SetupBeforeMove ==
  /\ calls < MaxCalls
  /\ data # None
  /\ \E relativeIndexes \in SetupGroups : compute_before_move(relativeIndexes)
  /\ UNCHANGED engineVars
SetupAmputate ==
  /\ calls < MaxCalls
  /\ data # None
  /\ \E relativeIndex \in SetupAtoms : compute_as_if_amputated(relativeIndex)
  /\ UNCHANGED << boxCoordinates, tried, engine >>
SetupAcceptAmputation ==
  /\ calls < MaxCalls
  /\ amputationData # None
  /\ accept_amputation
  /\ UNCHANGED engineVars
Listen ==
  /\ calls < MaxCalls
  /\ \E message \in Messages : listen(message)
  /\ UNCHANGED engineVars
SetLimits ==
  /\ calls < MaxCalls
  /\ \E l \in SetupLimits : set_limits(l)
  /\ UNCHANGED engineVars
SetExperimentalData ==
  /\ calls < MaxCalls
  /\ \E e \in SetupExperimentalData : set_experimental_data(e)
  /\ UNCHANGED engineVars

NextSetup ==
  \/ SetupComputeData
  \/ SetupBeforeMove
  \/ SetupAmputate
  \/ SetupAcceptAmputation
  \/ Listen
  \/ SetLimits
  \/ SetExperimentalData

SpecSetup == InitSetup /\ [][NextSetup]_vars

(***************************************************************************)
(* Specification SpecWeighting: the weighting scheme as a function of the  *)
(* populations.  The engine's populations are any vector with at least one *)
(* atom; atoms come and go one at a time and the constraint is notified.   *)
(***************************************************************************)
MaxPopulation == 3
Populations == { n \in [Elements -> 0 .. MaxPopulation] : IntSum(n) >= 1 }
InitWeighting ==
  InitFrom(InitialSystem, InitialExperimentalData, InitialCoordinates, Generators, { 0 },
           Populations)

PopulationChange ==
  /\ \E e \in Elements : \E by \in { -1, 1 } :
        /\ numberOfAtomsPerElement' = [numberOfAtomsPerElement EXCEPT ![e] = @ + by]
        /\ numberOfAtomsPerElement' \in Populations
  /\ UNCHANGED << systemVars, boxCoordinates, tried, engine, constraintVars, configVars,
                  correctionVars, kernelVars, callVars >>
Notify ==
  /\ calls < MaxCalls
  /\ \E message \in Messages : listen(message)
  /\ UNCHANGED engineVars

NextWeighting ==
  \/ PopulationChange
  \/ Notify

SpecWeighting == InitWeighting /\ [][NextWeighting]_vars

(***************************************************************************)
(* Specification SpecPair: two atoms of one element in two molecules, 0.35 *)
(* apart in a periodic box, and ten bins of width 0.1 from 0.0 to 1.0.  A  *)
(* cell is 0.05 long; the atoms are 7 cells apart, directly or across the  *)
(* boundary of the box.                                                    *)
(***************************************************************************)
PairSystem ==
  [elementsIndex |-> << 0, 0 >>, moleculesIndex |-> << 0, 1 >>,
   basisVectors |-> [cells |-> 16, length |-> Ratio(1, 20)]]
PairExperimentalData == [i \in 1 .. 10 |-> [r |-> 4 * i - 2, y |-> FromInt(i - 4)]]
PairCoordinates ==
  { << x, (x + 7) % 16 >> : x \in 0 .. 15 } \cup { << (x + 7) % 16, x >> : x \in 0 .. 15 }
InitPair ==
  InitFrom(PairSystem, PairExperimentalData, PairCoordinates, Generators,
           AdjustFrequencies, { InitialPopulation })

PairComputeData ==
  /\ calls < MaxCalls
  /\ compute_data
  /\ UNCHANGED engineVars

NextPair == PairComputeData

SpecPair == InitPair /\ [][NextPair]_vars

(***************************************************************************)
(* Specification SpecKernel: calls of the kernel on one to MaxWorkers      *)
(* workers, full over all atoms and over a group, and of a group against   *)
(* all atoms, under every way of sharing out the pairs and every order in  *)
(* which the workers add their tallies.                                    *)
(***************************************************************************)
KernelCoordinates == { << 2, 0, 3, 1 >> }
KernelCalls ==
  { [mode |-> "full", rows |-> Atoms], [mode |-> "full", rows |-> {2, 3}],
    [mode |-> "multiple", rows |-> {1}], [mode |-> "multiple", rows |-> {2, 3}] }
InitKernel ==
  InitFrom(InitialSystem, InitialExperimentalData, KernelCoordinates, Generators, { 0 },
           { InitialPopulation })

KernelCall ==
  /\ kernel.pc = "idle"
  /\ \E call \in KernelCalls : \E ncores \in 1 .. MaxWorkers :
     \E share \in [KernelPairs(call.mode, call.rows) -> 1 .. ncores] :
        kernel' = [pc |-> "running", mode |-> call.mode, rows |-> call.rows,
                   ncores |-> ncores, share |-> share, pending |-> 1 .. ncores,
                   first |-> 0, intra |-> HZero, inter |-> HZero]
  /\ UNCHANGED << systemVars, engineVars, constraintVars, configVars, correctionVars,
                  callVars >>
WorkerAdd ==
  /\ kernel.pc = "running"
  /\ \E w \in kernel.pending :
        kernel' = [kernel EXCEPT
                     !.pending = @ \ {w},
                     !.first = IF @ = 0 THEN w ELSE @,
                     !.intra = Accumulate(@, Tally(boxCoordinates, ShareOf(w), TRUE)),
                     !.inter = Accumulate(@, Tally(boxCoordinates, ShareOf(w), FALSE))]
  /\ UNCHANGED << systemVars, engineVars, constraintVars, configVars, correctionVars,
                  callVars >>
KernelReturn ==
  /\ kernel.pc = "running"
  /\ kernel.pending = {}
  /\ kernel' = [kernel EXCEPT !.pc = "returned"]
  /\ UNCHANGED << systemVars, engineVars, constraintVars, configVars, correctionVars,
                  callVars >>

NextKernel ==
  \/ KernelCall
  \/ WorkerAdd
  \/ KernelReturn

SpecKernel == InitKernel /\ [][NextKernel]_vars

(***************************************************************************)
(* Specification SpecDegenerate: a constraint with a fixed scale factor,   *)
(* built with or without weights on its experimental points, whose client  *)
(* sets limits and experimental data (with distances that advance or stay  *)
(* where they are) and computes the data.                                  *)
(***************************************************************************)
DegenerateCorrections ==
  { NoCorrections, [NoCorrections EXCEPT !.dataWeights = Some(<< FZero, FromInt(2) >>)] }
DegenerateLimits == { None, << None, Some(2) >>, << Some(4), None >> }
DegenerateExperimentalData ==
  { InitialExperimentalData,
    << [r |-> 2, y |-> FromInt(-10)], [r |-> 2, y |-> FromInt(-22)] >> }
InitDegenerate ==
  InitWith(InitialSystem, InitialExperimentalData, InitialCoordinates, Generators, { 0 },
           { InitialPopulation }, DegenerateCorrections)

DegenerateComputeData ==
  /\ calls < MaxCalls
  /\ compute_data
  /\ UNCHANGED engineVars
DegenerateSetLimits ==
  /\ calls < MaxCalls
  /\ \E l \in DegenerateLimits : set_limits(l)
  /\ UNCHANGED engineVars
DegenerateSetExperimentalData ==
  /\ calls < MaxCalls
  /\ \E e \in DegenerateExperimentalData : set_experimental_data(e)
  /\ UNCHANGED engineVars

NextDegenerate ==
  \/ DegenerateComputeData
  \/ DegenerateSetLimits
  \/ DegenerateSetExperimentalData

SpecDegenerate == InitDegenerate /\ [][NextDegenerate]_vars

(***************************************************************************)
(* Specification SpecWindow: a constraint with or without a window         *)
(* function whose client computes the data, evaluates a move and an        *)
(* amputation, sets the window function and has the standard error         *)
(* computed and set.                                                       *)
(***************************************************************************)
Windows == { None, Some(<< FOne, FOne >>), Some(<< FOne, FromInt(3) >>) }
WindowCorrections ==
  { NoCorrections,
    [NoCorrections EXCEPT !.windowFunction = Some(DividedBySum(<< FOne, FOne >>))] }
InitWindow ==
  InitWith(InitialSystem, InitialExperimentalData, InitialCoordinates, Generators,
           AdjustFrequencies, { InitialPopulation }, WindowCorrections)

WindowComputeData ==
  /\ calls < MaxCalls
  /\ compute_data
  /\ UNCHANGED engineVars
WindowBeforeMove ==
  /\ calls < MaxCalls
  /\ data # None
  /\ \E relativeIndexes \in SetupGroups : compute_before_move(relativeIndexes)
  /\ UNCHANGED engineVars
WindowAfterMove ==
  /\ calls < MaxCalls
  /\ activeAtomsDataBeforeMove # None
  /\ \E relativeIndexes \in SetupGroups :
        compute_after_move(relativeIndexes, Shifted(relativeIndexes, 1))
  /\ UNCHANGED << numberOfAtomsPerElement, tried, engine >>
WindowAmputate ==
  /\ calls < MaxCalls
  /\ data # None
  /\ \E relativeIndex \in SetupAtoms : compute_as_if_amputated(relativeIndex)
  /\ UNCHANGED << boxCoordinates, tried, engine >>
SetWindowFunction ==
  /\ calls < MaxCalls
  /\ \E w \in Windows : set_window_function(w)
  /\ UNCHANGED engineVars
ComputeAndSetStandardError ==
  /\ calls < MaxCalls
  /\ compute_and_set_standard_error
  /\ UNCHANGED engineVars

NextWindow ==
  \/ WindowComputeData
  \/ WindowBeforeMove
  \/ WindowAfterMove
  \/ WindowAmputate
  \/ SetWindowFunction
  \/ ComputeAndSetStandardError

SpecWindow == InitWindow /\ [][NextWindow]_vars

(***************************************************************************)
(* Specification SpecShape: a run of a constraint whose shape function is  *)
(* none, an array, or computed from the atoms every one or two accepted    *)
(* moves.  After each accepted or rejected move the engine has the         *)
(* constraint look at the step.                                            *)
(***************************************************************************)
MaxShapeSteps == 3
ShapeArrays == { << FOne, FromInt(2) >>, << FOne >> }
ShapeParameters ==
  { << None, None >>, << LiveShape, None >>, << LiveShape, Some(1) >>, << LiveShape, Some(2) >> }
    \cup { << ArrayShape(a), None >> : a \in ShapeArrays }
InitShape ==
  InitWith(InitialSystem, InitialExperimentalData, InitialCoordinates, Generators, { 0 },
           { InitialPopulation }, { NoCorrections })

ShapeSetParameters ==
  /\ engine.pc = "init"
  /\ calls = 0
  /\ \E p \in ShapeParameters : set_shape_function_parameters(p[1], p[2])
  /\ UNCHANGED engineVars
ShapeComputeData ==
  /\ engine.pc \in { "init", "idle" }
  /\ data = None
  /\ compute_data
  /\ UNCHANGED engineVars
ShapeRuntimeInitialize ==
  /\ engine.pc = "init"
  /\ engine' = [engine EXCEPT !.pc = "idle"]
  /\ UNCHANGED << boxCoordinates, numberOfAtomsPerElement, tried >>
  /\ runtime_initialize
ShapeBeforeMove ==
  /\ engine.pc = "idle"
  /\ data # None
  /\ engine.steps < MaxShapeSteps
  /\ \E group \in SetupGroups :
        /\ compute_before_move(group)
        /\ engine' = [engine EXCEPT !.pc = "before", !.group = group]
  /\ tried' = tried + 1
  /\ UNCHANGED << boxCoordinates, numberOfAtomsPerElement >>
ShapeAfterMove ==
  /\ engine.pc = "before"
  /\ \E movedBoxCoordinates \in { Shifted(engine.group, 1) } :
        /\ compute_after_move(engine.group, movedBoxCoordinates)
        /\ engine' = [engine EXCEPT !.pc = "after", !.moved = movedBoxCoordinates]
  /\ UNCHANGED << numberOfAtomsPerElement, tried >>
ShapeAccept ==
  /\ engine.pc = "after"
  /\ accept_move
  /\ boxCoordinates' = WriteCoordinates(boxCoordinates, engine.group, engine.moved)
  /\ engine' = [engine EXCEPT !.pc = "step", !.accepted = @ + 1]
  /\ UNCHANGED << numberOfAtomsPerElement, tried >>
ShapeReject ==
  /\ engine.pc = "after"
  /\ reject_move
  /\ engine' = [engine EXCEPT !.pc = "step"]
  /\ UNCHANGED << boxCoordinates, numberOfAtomsPerElement, tried >>
ShapeOnStep ==
  /\ engine.pc = "step"
  /\ engine' = [engine EXCEPT !.pc = "idle", !.steps = @ + 1, !.group = {}, !.moved = << >>]
  /\ UNCHANGED << boxCoordinates, numberOfAtomsPerElement, tried >>
  /\ runtime_on_step

NextShape ==
  \/ ShapeSetParameters
  \/ ShapeComputeData
  \/ ShapeRuntimeInitialize
  \/ ShapeBeforeMove
  \/ ShapeAfterMove
  \/ ShapeAccept
  \/ ShapeReject
  \/ ShapeOnStep

SpecShape == InitShape /\ [][NextShape]_vars

(***************************************************************************)
(* Specification SpecCheck: the checks of the experimental data of the     *)
(* two constraints, applied to data of two or three points at any          *)
(* distances.  The call record keeps the data checked and the answer.      *)
(***************************************************************************)
MaxDistance == 4
CheckedData ==
  { [i \in DOMAIN column |-> [r |-> column[i], y |-> FZero]] :
      column \in UNION { [1 .. n -> 0 .. MaxDistance] : n \in { 2, 3 } } }
Checked(op, e, result) == [op |-> op, raised |-> FALSE, input |-> e, result |-> result]
InitCheck ==
  InitFrom(InitialSystem, InitialExperimentalData, InitialCoordinates, Generators, { 0 },
           { InitialPopulation })

CheckPairDistribution ==
  /\ calls < MaxCalls
  /\ calls' = calls + 1
  /\ \E e \in CheckedData :
        lastCall' = Checked("PairDistributionConstraint.check_experimental_data", e,
                            check_experimental_data(e))
  /\ UNCHANGED << systemVars, engineVars, constraintVars, configVars, correctionVars,
                  kernelVars, txn >>
CheckStructureFactor ==
  /\ calls < MaxCalls
  /\ calls' = calls + 1
  /\ \E e \in CheckedData :
        lastCall' = Checked("StructureFactorConstraint.check_experimental_data", e,
                            check_experimental_data_Sq(e))
  /\ UNCHANGED << systemVars, engineVars, constraintVars, configVars, correctionVars,
                  kernelVars, txn >>

NextCheck ==
  \/ CheckPairDistribution
  \/ CheckStructureFactor

SpecCheck == InitCheck /\ [][NextCheck]_vars

(***************************************************************************)
(* Specification SpecWeights: a client that sets the limits, the           *)
(* experimental data and the weights of the experimental points in any     *)
(* order, on a constraint built with or without weights.                   *)
(***************************************************************************)
WeightsGiven ==
  { << FOne, FOne >>, << FOne, FromInt(3) >>, << FZero, FromInt(2) >>, << FZero, FZero >>,
    << FOne >> }
WeightsCorrections ==
  { NoCorrections,
    [NoCorrections EXCEPT !.dataWeights = Some(Rescaled(<< FOne, FromInt(3) >>))] }
WeightsLimits == { None, << None, Some(2) >>, << Some(4), None >> }
WeightsExperimentalData ==
  { InitialExperimentalData,
    << [r |-> 2, y |-> FromInt(-8)], [r |-> 4, y |-> FromInt(-20)] >> }
InitWeights ==
  InitWith(InitialSystem, InitialExperimentalData, InitialCoordinates, Generators, { 0 },
           { InitialPopulation }, WeightsCorrections)

WeightsSetLimits ==
  /\ calls < MaxCalls
  /\ \E l \in WeightsLimits : set_limits(l)
  /\ UNCHANGED engineVars
WeightsSetExperimentalData ==
  /\ calls < MaxCalls
  /\ \E e \in WeightsExperimentalData : set_experimental_data(e)
  /\ UNCHANGED engineVars
WeightsSetDataWeights ==
  /\ calls < MaxCalls
  /\ \E w \in WeightsGiven : set_data_weights(Some(w))
  /\ UNCHANGED engineVars

NextWeights ==
  \/ WeightsSetLimits
  \/ WeightsSetExperimentalData
  \/ WeightsSetDataWeights

SpecWeights == InitWeights /\ [][NextWeights]_vars

(***************************************************************************)
(* Properties.                                                             *)
(***************************************************************************)
\* a step that is a call of op
Called(op) == calls' = calls + 1 /\ lastCall'.op = op
\* the store with the candidates of the open transaction in place
WithMoved == WriteCoordinates(boxCoordinates, txn.relativeIndexes, txn.moved)

\* C1: when accept_move returns, the committed intra and inter histograms are
\* exactly the committed ones minus the before-move delta plus the after-move
\* delta, in every bin of every element pair.
C1_AcceptMoveAppliesDeltas ==
  [][ (Called("accept_move") /\ ~lastCall'.raised)
        => data' = Some(DataAdd(DataSub(Get(data), Get(activeAtomsDataBeforeMove)),
                                Get(activeAtomsDataAfterMove))) ]_vars
C1_Witness ==
  /\ lastCall = Returned("accept_move")
  /\ txn.phase = "committed"
  /\ data # txn.data

C3_DiscardSymmetry ==
  txn.phase = "discarded"
    => /\ data = txn.data
       /\ standardError = txn.standardError
       /\ activeAtomsDataBeforeMove = None
       /\ activeAtomsDataAfterMove = None
       /\ txn.idle => Idle
C3_Witness ==
  /\ txn.phase = "discarded"
  /\ txn.idle
  /\ txn.moved # << >>
  /\ data # None
  /\ WithMoved # boxCoordinates

C5_CoordinatesRestored ==
  [][ (Called("compute_after_move") /\ ~lastCall'.raised)
        => boxCoordinates' = boxCoordinates ]_vars
C5_Witness ==
  /\ lastCall = Returned("compute_after_move")
  /\ txn.phase = "after"
  /\ WithMoved # boxCoordinates

\* C6: on every exit of compute_after_move, raising ones included, the
\* coordinate store is what it was before the call.
C6_CoordinatesRestoredOnEveryExit ==
  [][ Called("compute_after_move") => boxCoordinates' = boxCoordinates ]_vars

\* C7: a staged amputation and an in-flight move delta never coexist.
C7_OneTransactionKind ==
  ~ /\ amputationData # None
    /\ (activeAtomsDataBeforeMove # None \/ activeAtomsDataAfterMove # None)

\* C8: compute_before_move called while a before-move delta is pending raises
\* and leaves the pending deltas in place.
C8_NoReentry ==
  [][ (Called("compute_before_move") /\ activeAtomsDataBeforeMove # None)
        => /\ lastCall'.raised
           /\ activeAtomsDataBeforeMove' = activeAtomsDataBeforeMove
           /\ activeAtomsDataAfterMove' = activeAtomsDataAfterMove ]_vars

\* C9: compute_after_move without a pending before-move delta, and accept_move
\* without both deltas, raise and leave the committed histogram, the committed
\* standard error, the scale factor and the coordinate store unchanged.
C9_OutOfOrderCallsFail ==
  [][ (\/ Called("compute_after_move") /\ activeAtomsDataBeforeMove = None
       \/ Called("accept_move") /\ (activeAtomsDataBeforeMove = None
                                    \/ activeAtomsDataAfterMove = None))
        => /\ lastCall'.raised
           /\ data' = data
           /\ standardError' = standardError
           /\ scaleFactor' = scaleFactor
           /\ boxCoordinates' = boxCoordinates ]_vars

\* C10: an after-move delta exists only while a before-move delta exists, and
\* after accept_move or reject_move returns neither delta nor the staged
\* after-move standard error remains.
C10_AfterOnlyWithBefore ==
  /\ activeAtomsDataAfterMove # None => activeAtomsDataBeforeMove # None
  /\ lastCall \in { Returned("accept_move"), Returned("reject_move") }
       => /\ activeAtomsDataBeforeMove = None
          /\ activeAtomsDataAfterMove = None
          /\ afterMoveStandardError = None

C12_AmputationDiscarded ==
  txn.phase = "amputation rejected"
    => /\ data = txn.data
       /\ standardError = txn.standardError
       /\ weightingScheme = txn.weightingScheme
       /\ numberOfAtomsPerElement = txn.numberOfAtomsPerElement
       /\ amputationData = None
       /\ amputationStandardError = None
C12_Witness ==
  /\ txn.phase = "amputation rejected"
  /\ data # None
  /\ standardError # None

\* C13: when compute_as_if_amputated returns, the staged histogram is the
\* committed one minus the before-move delta of the removed atom, in every bin
\* of every element pair, and the committed histogram is the one from before
\* the call.
C13_AmputationStagesReducedHistogram ==
  txn.phase = "amputated"
    => /\ amputationData # None
       /\ Get(amputationData).data
            = DataSub(Get(txn.data), ActiveAtomsData(txn.coords, txn.relativeIndexes))
       /\ data = txn.data
C13_Witness ==
  /\ txn.phase = "amputated"
  /\ amputationData # None
  /\ Get(amputationData).data # Get(data)

\* the populations of the open amputation without the atom it removes
ReducedPopulation ==
  [txn.numberOfAtomsPerElement
     EXCEPT ![elementsIndex[CHOOSE a \in txn.relativeIndexes : TRUE]] = @ - 1]
AmputationAccepted ==
  /\ Called("accept_amputation")
  /\ ~lastCall'.raised
  /\ txn.phase = "amputated"
AmputationCommitted ==
  /\ data' = Some(Get(amputationData).data)
  /\ weightingScheme' = get_normalized_weighting(ReducedPopulation, elementsWeight)
  /\ standardError' = amputationStandardError
\* C14 as stated: after compute_as_if_amputated then accept_amputation the
\* committed histogram is the staged one, the weighting scheme is the one of the
\* reduced populations, the committed standard error is the staged one, and the
\* population of the removed atom's element is one lower than before the
\* evaluation.
C14_AmputationCommitsRemoval ==
  [][ AmputationAccepted
        => /\ AmputationCommitted
           /\ numberOfAtomsPerElement' = ReducedPopulation ]_vars
\* C14 amended: after compute_as_if_amputated then accept_amputation the
\* committed histogram is the staged one, the weighting scheme is the one of the
\* reduced populations, the committed standard error is the staged one, and the
\* populations per element are those from before the evaluation.
C14_AmputationCommitsStaged ==
  [][ AmputationAccepted
        => /\ AmputationCommitted
           /\ numberOfAtomsPerElement' = txn.numberOfAtomsPerElement ]_vars
C14_Witness ==
  /\ txn.phase = "amputation accepted"
  /\ data # txn.data
  /\ weightingScheme # txn.weightingScheme
  /\ standardError # txn.standardError
  /\ numberOfAtomsPerElement = txn.numberOfAtomsPerElement

\* C15: when compute_as_if_amputated returns and the move generator does not
\* allow fitting the scale factor, no refit has taken place: the scale factor of
\* the evaluation is the accepted one and the staged error is the error of the
\* staged histogram under the accepted scale factor, whatever the adjustment
\* frequency and the number of tried steps are.
C15_NoRefitDuringAmputation ==
  [][ (Called("compute_as_if_amputated") /\ ~lastCall'.raised /\ ~allowFittingScaleFactor)
        => /\ fittedScaleFactor' = scaleFactor
           /\ amputationStandardError'
                = Some(ErrorOf(Get(amputationData').data,
                               FDiv(FromInt(numberOfAtoms - 1), volume),
                               [Env EXCEPT !.weightingScheme = Get(amputationData').weightingScheme,
                                           !.numberOfAtomsPerElement = ReducedPopulation',
                                           !.adjustScaleFactorFrequency = 0]).standardError) ]_vars
\* an evaluation under a frequency that makes a refit due at this step and
\* would change the scale factor
C15_Witness ==
  /\ lastCall = Returned("compute_as_if_amputated")
  /\ ~allowFittingScaleFactor
  /\ adjustScaleFactorFrequency # 0
  /\ tried % adjustScaleFactorFrequency = 0
  /\ fittedScaleFactor = scaleFactor
  /\ get_adjusted_scale_factor(
       experimentalPDF,
       [k \in Bins |-> TotalAt(Get(amputationData).data,
                               FDiv(FromInt(numberOfAtoms - 1), volume),
                               [Env EXCEPT !.weightingScheme = Get(amputationData).weightingScheme,
                                           !.numberOfAtomsPerElement = ReducedPopulation], k)],
       scaleFactor, adjustScaleFactorFrequency, tried) # scaleFactor
\* the generator allows the fit and the evaluation refits
C15_WitnessAllowed ==
  /\ lastCall = Returned("compute_as_if_amputated")
  /\ allowFittingScaleFactor
  /\ fittedScaleFactor # scaleFactor

\* C16: originalData is set by the first compute_data that returns, to the
\* histogram of that computation, and no later call changes it.
C16_OriginalDataSetOnce ==
  [][ /\ originalData # None => originalData' = originalData
      /\ (originalData = None /\ originalData' # None)
           => /\ Called("compute_data")
              /\ originalData' = Some(full_pairs_histograms_coords(boxCoordinates, Atoms))
      /\ (Called("compute_data") /\ ~lastCall'.raised) => originalData' # None ]_vars
\* a later compute_data has committed a histogram that differs from the first
C16_Witness ==
  /\ lastCall = Returned("compute_data")
  /\ engine.pc = "done"
  /\ originalData # None
  /\ data # originalData

\* the histograms the constraint holds are laid out on the present grid
OnGrid(o) ==
  o # None => DOMAIN Get(o).intra = HistIndex /\ DOMAIN Get(o).inter = HistIndex
\* C17 as stated: after an 'engine set', 'update molecules indexes' or 'update
\* boundary conditions' notification the stored weighting scheme is the
\* normalized weighting of the engine's present populations.
C17_SchemeRecomputedOnNotification ==
  [][ Called("listen")
        => weightingScheme' = get_normalized_weighting(numberOfAtomsPerElement', elementsWeight) ]_vars
\* C17 amended: after an 'engine set' or 'update molecules indexes'
\* notification the stored weighting scheme is the normalized weighting of the
\* engine's present populations; an 'update boundary conditions' notification
\* leaves the stored scheme as it was.
C17_SchemeRecomputedOnEngineSet ==
  [][ Called("listen")
        => IF lastCall'.message = "update boundary conditions"
           THEN weightingScheme' = weightingScheme
           ELSE weightingScheme' = get_normalized_weighting(numberOfAtomsPerElement', elementsWeight) ]_vars
\* a notification has brought a scheme left by an accepted amputation back to
\* the one of the populations
C17_Witness ==
  /\ lastCall = Heard("engine set")
  /\ txn.phase = "reset"
  /\ txn.weightingScheme # weightingScheme
  /\ weightingScheme = get_normalized_weighting(numberOfAtomsPerElement, elementsWeight)

C18_WitnessExperimentalData ==
  /\ lastCall = Returned("set_experimental_data")
  /\ txn.phase = "reset"
  /\ txn.data # None
  /\ experimentalData # InitialExperimentalData
  /\ data = None

\* the sum of a scheme over the unordered pairs of elements is one, short of
\* what rounding each value down has lost
Normalized(scheme) ==
  \E total \in { SumOver(scheme, elementsPairs) } :
     /\ ~total.nan
     /\ total.v <= FOne.v
     /\ total.v >= FOne.v - Cardinality(elementsPairs)
\* the populations with one atom of element e taken away, as
\* compute_as_if_amputated has them while it recomputes the scheme
Without(e) == [numberOfAtomsPerElement EXCEPT ![e] = @ - 1]
C20_OnePairInBinThree ==
  lastCall = Returned("compute_data")
    => /\ data # None
       /\ DOMAIN Get(data).inter = { 0 } \X { 0 } \X (0 .. 9)
       /\ \A k \in 0 .. 9 :
            /\ Get(data).inter[<< 0, 0, k >>] = (IF k = 3 THEN 1 ELSE 0)
            /\ Get(data).intra[<< 0, 0, k >>] = 0
\* the scenario of the claim, with the pair 0.35 apart across the boundary
C20_Witness ==
  /\ lastCall = Returned("compute_data")
  /\ Elements = { 0 }
  /\ moleculesIndex[1] # moleculesIndex[2]
  /\ isPBC
  /\ Length(bin) = Ratio(1, 10)
  /\ Length(minimumDistance) = FZero
  /\ Length(maximumDistance) = FOne
  /\ Length(Distance(boxCoordinates, 1, 2)) = Ratio(35, 100)
  /\ Abs(boxCoordinates[1] - boxCoordinates[2]) = 9
  /\ standardError # None
  /\ ~Get(standardError).nan

\* the tally a worker has added to the accumulators
Added(w) ==
  [intra |-> Tally(boxCoordinates, ShareOf(w), TRUE),
   inter |-> Tally(boxCoordinates, ShareOf(w), FALSE)]
ZeroShellVolume == \E k \in Bins : shellVolumes[k] = FZero
ZeroUsedWeights ==
  usedDataWeights # None
    /\ SumOver(Get(usedDataWeights), DOMAIN Get(usedDataWeights)) = FZero
NonFiniteError(o) == o # None /\ Get(o).nan
\* C22: a computation under a shell volume of zero raises, a call that leaves
\* the weights in use all zero raises, and no call stores a committed or
\* staged standard error that is not a finite number.
C22_DegeneracyIsFatal ==
  [][ /\ (Called("compute_data") /\ ZeroShellVolume) => lastCall'.raised
      /\ ((Called("set_limits") \/ Called("set_experimental_data")) /\ ZeroUsedWeights')
           => lastCall'.raised
      /\ ~NonFiniteError(standardError')
      /\ ~NonFiniteError(afterMoveStandardError')
      /\ ~NonFiniteError(amputationStandardError') ]_vars
\* set_limits has raised on weights that are all zero within the limits
C22_ZeroWeightsRaise ==
  /\ lastCall = Raised("set_limits")
  /\ ZeroUsedWeights
  /\ dataWeights # None
\* compute_data has returned under a shell volume of zero and has committed a
\* standard error that is not a number
C22_SilentNaN ==
  /\ lastCall = Returned("compute_data")
  /\ ZeroShellVolume
  /\ NonFiniteError(standardError)

\* the error of the observable of a histogram after its convolution with the
\* window function, the last step after the shape array and the scale factor
ConvolvedError(d, rho0, env, fitted) ==
  compute_standard_error(
    Windowed(Scaled([k \in Bins |-> TotalAt(d, rho0, env, k)], fitted)))
\* the stored errors of compute_data, compute_after_move and
\* compute_as_if_amputated are those of the convolved observable
C23_ComputedFromConvolved ==
  /\ (Called("compute_data") /\ ~lastCall'.raised)
       => standardError'
            = Some(ConvolvedError(Get(data'), numberDensity, Env, fittedScaleFactor'))
  /\ (Called("compute_after_move") /\ ~lastCall'.raised)
       => afterMoveStandardError'
            = Some(ConvolvedError(HypotheticalData(Get(data), Get(activeAtomsDataBeforeMove),
                                                   Get(activeAtomsDataAfterMove')),
                                  numberDensity, Env, fittedScaleFactor'))
  /\ (Called("compute_as_if_amputated") /\ ~lastCall'.raised)
       => amputationStandardError'
            = Some(ConvolvedError(Get(amputationData').data,
                                  FDiv(FromInt(numberOfAtoms - 1), volume),
                                  [Env EXCEPT !.weightingScheme = Get(amputationData').weightingScheme,
                                              !.numberOfAtomsPerElement = ReducedPopulation'],
                                  fittedScaleFactor'))
\* C23: every standard error that compute_data, compute_after_move,
\* compute_as_if_amputated and compute_and_set_standard_error store is the
\* error of the observable after its convolution with the window function.
C23_ErrorsFromConvolved ==
  [][ /\ C23_ComputedFromConvolved
      /\ (Called("compute_and_set_standard_error") /\ ~lastCall'.raised)
           => standardError'
                = Some(compute_standard_error(
                         get_constraint_value(Get(data), numberDensity, Env).pdf)) ]_vars
\* the part of C23 that holds: the three computations that go through the
\* transform store the error of the convolved observable
C23_TransformConvolves == [][ C23_ComputedFromConvolved ]_vars
\* compute_and_set_standard_error has stored, under a window function, an error
\* that is not the one of the convolved observable
C23_Unconvolved ==
  /\ lastCall = Returned("compute_and_set_standard_error")
  /\ windowFunction # None
  /\ standardError
       # Some(compute_standard_error(get_constraint_value(Get(data), numberDensity, Env).pdf))

\* C24: at a step, a shape array computed from the atoms with update frequency
\* N is computed again exactly when the engine's accepted count is a multiple
\* of N and is not the count of the last update; the update takes the array of
\* the present coordinates and records the count; an array given as it is, or
\* no shape function, is never computed again.
C24_ShapeRefresh ==
  [][ Called("_runtime_on_step") =>
        /\ lastCall'.updated
             <=> /\ shapeFuncParams = LiveShape
                 /\ shapeUpdateFreq # 0
                 /\ engine.accepted % shapeUpdateFreq = 0
                 /\ lastShapeUpdate # Some(engine.accepted)
        /\ lastCall'.updated
             => /\ shapeArray' = Some(get_Gr_shape_function(boxCoordinates))
                /\ lastShapeUpdate' = Some(engine.accepted)
        /\ ~lastCall'.updated => UNCHANGED << shapeArray, lastShapeUpdate >> ]_vars
\* the second accepted move of a run has had the shape array, due every two
\* accepted moves, computed again
C24_Witness ==
  /\ lastCall = OnStep(TRUE)
  /\ shapeFuncParams = LiveShape
  /\ shapeUpdateFreq = 2
  /\ engine.accepted = 2
  /\ lastShapeUpdate = Some(2)
\* a step after a rejected move left the shape array as it was although the
\* accepted count is a multiple of the frequency
C24_OncePerCount ==
  /\ lastCall = OnStep(FALSE)
  /\ shapeFuncParams = LiveShape
  /\ shapeUpdateFreq = 1
  /\ engine.accepted = 1
  /\ engine.steps = 2
\* a run with an array given as it is has made an accepted move
C24_ArrayHeld ==
  /\ lastCall = OnStep(FALSE)
  /\ shapeFuncParams # None /\ shapeFuncParams # LiveShape
  /\ engine.accepted >= 1

\* a later distance is below an earlier one; the steps between the distances
\* are not all the same
OutOfOrder(e) == \E i, j \in DOMAIN e : i < j /\ e[j].r < e[i].r
Uneven(e) == \E i, j \in 1 .. (Len(e) - 1) : e[i + 1].r - e[i].r # e[j + 1].r - e[j].r
CheckAnswered ==
  lastCall.op \in { "PairDistributionConstraint.check_experimental_data",
                    "StructureFactorConstraint.check_experimental_data" }
\* C25 as stated: the check of either constraint rejects data whose distances
\* are not in increasing order or not evenly spaced.
C25_BothRejectUnevenOrUnordered ==
  CheckAnswered => ((OutOfOrder(lastCall.input) \/ Uneven(lastCall.input)) => ~lastCall.result)
\* C25 amended: the check of either constraint rejects data whose distances are
\* not in increasing order; the check of the pair distribution constraint also
\* rejects data whose distances are not evenly spaced.
C25_RejectsUnordered ==
  CheckAnswered
    => /\ OutOfOrder(lastCall.input) => ~lastCall.result
       /\ (lastCall.op = "PairDistributionConstraint.check_experimental_data"
              /\ Uneven(lastCall.input)) => ~lastCall.result
\* the pair distribution check has rejected ordered, unevenly spaced distances
C25_Witness ==
  /\ lastCall.op = "PairDistributionConstraint.check_experimental_data"
  /\ ~OutOfOrder(lastCall.input) /\ Uneven(lastCall.input)
  /\ ~lastCall.result
\* the structure factor check has accepted ordered, unevenly spaced distances
C25_StructureFactorAcceptsUneven ==
  /\ lastCall.op = "StructureFactorConstraint.check_experimental_data"
  /\ ~OutOfOrder(lastCall.input) /\ Uneven(lastCall.input)
  /\ lastCall.result

\* what compute_after_move stages on return: the committed histogram and
\* error, the accepted scale factor and the rest of the constraint are as they
\* were, and the staged error is the error of committed - before + after
AfterMoveStages ==
  /\ UNCHANGED << data, originalData, standardError, scaleFactor, activeAtomsDataBeforeMove,
                  amputationData, amputationStandardError, adjustScaleFactorFrequency,
                  weightingScheme, correctionVars, configVars >>
  /\ activeAtomsDataAfterMove' # None
  /\ afterMoveStandardError'
       = Some(ErrorOf(DataAdd(DataSub(Get(data), Get(activeAtomsDataBeforeMove)),
                              Get(activeAtomsDataAfterMove')),
                      numberDensity, Env).standardError)
\* C26 as stated: on return from compute_after_move the committed histogram,
\* the committed standard error and the accepted scale factor are as before,
\* the staged error is the error of committed - before + after, and nothing
\* of the constraint but the after-move delta and the staged error changed.
C26_OnlyDeltaAndStagedError ==
  [][ (Called("compute_after_move") /\ ~lastCall'.raised)
        => (AfterMoveStages /\ UNCHANGED fittedScaleFactor) ]_vars
\* C26 amended: on return from compute_after_move the committed histogram, the
\* committed standard error and the accepted scale factor are as before, the
\* staged error is the error of committed - before + after, and nothing of
\* the constraint but the after-move delta, the staged error and the fitted
\* scale factor of the evaluation changed.
C26_StagesOnly ==
  [][ (Called("compute_after_move") /\ ~lastCall'.raised)
        => /\ AfterMoveStages
           /\ fittedScaleFactor'
                = ErrorOf(DataAdd(DataSub(Get(data), Get(activeAtomsDataBeforeMove)),
                                  Get(activeAtomsDataAfterMove')),
                          numberDensity, Env).fittedScaleFactor ]_vars
\* compute_after_move has returned with a staged error that is not the
\* committed one and a fitted scale factor that is not the accepted one
C26_Witness ==
  /\ lastCall = Returned("compute_after_move")
  /\ activeAtomsDataAfterMove # None
  /\ afterMoveStandardError # None /\ afterMoveStandardError # standardError
  /\ fittedScaleFactor # scaleFactor

\* C27: whenever no transaction is in flight, the committed standard error is
\* the error of the committed histogram under the accepted scale factor (so a
\* scale factor fitted while the committed error was computed has been
\* adopted as the accepted one).
C27_CommittedErrorUnderAcceptedFactor ==
  (Idle /\ data # None /\ standardError # None)
    => standardError = Some(ConvolvedError(Get(data), numberDensity, Env, scaleFactor))
\* compute_data has fitted a scale factor, computed the committed error under
\* it and left the accepted scale factor as it was
C27_FittedNotAdopted ==
  /\ lastCall = Returned("compute_data")
  /\ fittedScaleFactor # scaleFactor
  /\ standardError = Some(ConvolvedError(Get(data), numberDensity, Env, fittedScaleFactor))
  /\ standardError # Some(ConvolvedError(Get(data), numberDensity, Env, scaleFactor))
\* in the engine's run the scale factor accept_move adopts is the one the
\* transform fits to the histogram being accepted
C27_AdoptsFitOfAcceptedEvaluation ==
  [][ (Called("accept_move") /\ ~lastCall'.raised)
        => scaleFactor' = ErrorOf(Get(data'), numberDensity, Env).fittedScaleFactor ]_vars

\* C28: compute_data, called in any state, a pending move delta included,
\* makes the committed histogram the full recomputation over the present
\* coordinates, makes the committed standard error the error of that
\* histogram, and clears the before-move and the after-move delta.
C28_ComputeDataResets ==
  [][ (Called("compute_data") /\ ~lastCall'.raised)
        => /\ data' = Some(full_pairs_histograms_coords(boxCoordinates, Atoms))
           /\ standardError'
                = Some(ErrorOf(full_pairs_histograms_coords(boxCoordinates, Atoms),
                               numberDensity, Env).standardError)
           /\ activeAtomsDataBeforeMove' = None
           /\ activeAtomsDataAfterMove' = None ]_vars
\* the fourth call was compute_data, made with both deltas of a move pending:
\* the staged error of the move is still there, the deltas are not
C28_Witness ==
  /\ lastCall = Returned("compute_data")
  /\ calls = 4
  /\ afterMoveStandardError # None
  /\ activeAtomsDataBeforeMove = None /\ activeAtomsDataAfterMove = None
  /\ data = Some(full_pairs_histograms_coords(boxCoordinates, Atoms))

\* the engine's populations, the weighting scheme and the adjustment frequency
\* are as before the call and no before-move delta is pending
AmputationLeftClean ==
  /\ UNCHANGED << numberOfAtomsPerElement, weightingScheme, adjustScaleFactorFrequency >>
  /\ activeAtomsDataBeforeMove' = None
\* C29: on every exit from compute_as_if_amputated, an exit by an error
\* included, the engine's populations, the weighting scheme and the
\* adjustment frequency are as before the call and no before-move delta is
\* pending.
C29_RestoredOnEveryExit == [][ Called("compute_as_if_amputated") => AmputationLeftClean ]_vars
\* the part of C29 that holds: the exits by return
C29_RestoredOnReturn ==
  [][ (Called("compute_as_if_amputated") /\ ~lastCall'.raised) => AmputationLeftClean ]_vars
\* compute_as_if_amputated has ended by an error and left the before-move
\* delta it computed
C29_DeltaLeftPending ==
  /\ lastCall = Raised("compute_as_if_amputated")
  /\ activeAtomsDataBeforeMove # None

\* the used weights are one per experimental point within the limits and sum
\* to the number of those points, short of what rounding each of them down
\* has lost
UsedWeightsMatchLimits ==
  /\ usedDataWeights # None
  /\ \E n \in { maxDistIdx - minDistIdx + 1 } :
     \E total \in { SumOver(Get(usedDataWeights), DOMAIN Get(usedDataWeights)) } :
        /\ Cardinality(DOMAIN Get(usedDataWeights)) = n
        /\ ~total.nan
        /\ total.v <= FromInt(n).v
        /\ total.v >= FromInt(n).v - n * (n + 1)
\* C30: after any order of set_limits, set_experimental_data and
\* set_data_weights with weights that are not None, the used weights are one
\* per experimental point within the limits and sum to the number of those
\* points.
C30_UsedWeightsMatchLimits ==
  (dataWeights # None /\ ~lastCall.raised) => UsedWeightsMatchLimits
\* the part of C30 that holds: after set_limits and set_experimental_data
C30_LimitsSliceWeights ==
  (dataWeights # None /\ lastCall \in { Returned("set_limits"), Returned("set_experimental_data") })
    => UsedWeightsMatchLimits
\* set_data_weights has returned under limits that leave one point in use and
\* the used weights are two
C30_WeightsBeyondLimits ==
  /\ lastCall = Returned("set_data_weights")
  /\ maxDistIdx - minDistIdx + 1 = 1
  /\ usedDataWeights # None
  /\ Cardinality(DOMAIN Get(usedDataWeights)) = 2
====
